---- MODULE Spec2Model ----
(***************************************************************************)
(* Composed-tree tracking of TreeNode (lume): the light tree, shadow roots *)
(* and slot distribution, the child observers that report mutations, the   *)
(* slotchange events, and the tracker handlers that keep the distributed-  *)
(* parent / shadow-root-parent pointers and fire childComposedCallback /   *)
(* childUncomposedCallback.                                                *)
(***************************************************************************)
EXTENDS Integers, Sequences, FiniteSets, TLC

\* ------------------------------------------------------------------ bounds

\* Mutations the page script performs in one task, before the notifications
\* they queue are delivered.
MaxOps == 2

\* Composed callbacks that may be waiting for an element definition when the
\* page script performs another mutation.
MaxWaiting == 1

\* Largest drift of a child's composed-minus-uncomposed count at which the
\* page script still performs mutations.
MaxNet == 2

\* Longest list handed to the slot diff in the diff specification, and to
\* Surface.setClasses.
MaxLen == 3

\* Most removed classes a Surface holds in _dirtyClasses between two commits.
MaxDirty == 2

\* Longest list of classes handed to Surface.setOptions.
MaxOptions == 2

\* Most update functions the Motor's queue holds.
MaxQueue == 4

\* ---------------------------------------------------------------- universe

NONE == "none"

\* Elements whose tag names a Node class (isNode = true, isScene = false).
Nodes == {"h", "n", "x", "y"}

\* Elements whose tag names the Scene class (isScene = true).
Scenes == {"sc"}

\* <slot> elements.
Slots == {"s1", "s2"}

\* Elements that are neither TreeNodes nor slots, such as a <div>.
Others == {"d"}

\* Elements whose tag names a TreeNode class. Such an element is an instance
\* of TreeNode only once it is upgraded: see IsTreeNode.
TreeNodes == Nodes \cup Scenes

Elem == TreeNodes \cup Slots \cup Others

\* The name attribute of each <slot>.
SlotName == [s \in Slots |-> IF s = "s1" THEN "a" ELSE "b"]

SlotNames == {"a", "b"}

\* isNode(el) of core/utils.js: the element is one of a Node class, upgraded
\* or not (a child whose definition has not arrived is still handled as a
\* Node, its composed callback waiting for the definition).
isNode(e) == e \in Nodes

\* isScene(el) of core/utils.js: the element is one of the Scene class.
isScene(e) == e \in Scenes


\* child instanceof HTMLSlotElement
IsSlot(e) == e \in Slots

\* ------------------------------------------------------------------- state

VARIABLES
    script,          \* what the page script does: where it puts each element, which
                     \* elements it attaches a shadow root to or re-slots
    lightKids,       \* element -> its children, in tree order
    shadowKids,      \* host -> the top-level children of its shadow root
    hasShadow,       \* elements that own a shadow root (DOM)
    slotAttr,        \* element -> its slot attribute
    defined,         \* elements matching :defined: upgraded to their class
    registered,      \* elements whose definition customElements.define has registered
    lrec,            \* TreeNode -> pending child records of its child observer
    srec,            \* host -> pending child records of its shadow root observer
    signaled,        \* the signal slots: slots with a slotchange event to fire, in order
    inbox,           \* handler calls of the batch being delivered
    ops,             \* mutations of the current task; MaxOps once delivery has begun
    micro,           \* the microtask queue: the mutation observer microtask, defer()red
                     \* calls, whenDefined reactions of a registered definition
    waiting,         \* composed callbacks waiting on a whenDefined promise not yet resolved
    shadowRoot,      \* trackers whose __shadowRoot is set
    ipd,             \* __isPossiblyDistributedToShadowRoot
    dp,              \* __distributedParent
    srp,             \* __shadowRootParent
    dc,              \* __distributedChildren
    prev,            \* __previousSlotAssignedNodes
    lis,             \* slot -> its slotchange listeners
    threw,           \* a handler has raised an error
    emitted,         \* the callbacks delivered by the last step, in order
    last,            \* the last step taken
    tag,             \* parent, child -> connection type of the composed callback not yet undone
    net,             \* child -> composed minus uncomposed deliveries, over all parents
    probe,           \* the lists given to the slot diff, and what it returned
    answer,          \* what the last composed-tree query returned, if the last step was one
    surface,         \* a Surface (core/Surface.js), its target element and its last call
    mouse,           \* a MouseInput, its listeners, and the events it emitted
    motor            \* the Motor's update queue

\* child instanceof TreeNode: the element has been upgraded to its class.
IsTreeNode(e) == e \in TreeNodes /\ e \in defined

\* The same test inside a handler, which runs in the world T.
InstanceOfTreeNode(T, e) == e \in TreeNodes /\ e \in T.def

\* The TreeNode instances of the page: its upgraded TreeNode elements.
Instances == {e \in TreeNodes : IsTreeNode(e)}

dom == <<lightKids, shadowKids, hasShadow, slotAttr, defined, registered>>
queues == <<lrec, srec, signaled, inbox, ops, micro, waiting>>
tracker == <<shadowRoot, ipd, dp, srp, dc, prev, lis, threw>>
ghost == <<emitted, last, tag, net>>
aside == <<probe, surface, mouse, motor>>
vars == <<script, dom, queues, tracker, ghost, aside, answer>>

\* -------------------------------------------------------- sequence helpers

Range(s) == {s[i] : i \in 1..Len(s)}

Has(s, e) == \E i \in 1..Len(s) : s[i] = e

\* Array.prototype.indexOf, 1-based; 0 when absent.
IndexOf(s, e) == IF Has(s, e) THEN CHOOSE i \in 1..Len(s) : s[i] = e /\ \A j \in 1..(i-1) : s[j] # e ELSE 0

\* The sequence without its i-th element (unchanged when i is out of range).
DropAt(s, i) == IF i \in 1..Len(s) THEN [j \in 1..(Len(s)-1) |-> IF j < i THEN s[j] ELSE s[j+1]] ELSE s

Without(s, e) == SelectSeq(s, LAMBDA v : v # e)

NoDup(s) == \A i, j \in 1..Len(s) : i # j => s[i] # s[j]

RECURSIVE Flatten(_)
Flatten(ss) == IF ss = <<>> THEN <<>> ELSE Head(ss) \o Flatten(Tail(ss))

RECURSIVE SumOver(_, _)
SumOver(f, S) == IF S = {} THEN 0 ELSE LET e == CHOOSE v \in S : TRUE IN f[e] + SumOver(f, S \ {e})

\* ----------------------------------------------------------- the DOM tree

\* A container: the children of an element, or the top level of a shadow root.
Light(e) == [k |-> "light", of |-> e]
Shadow(e) == [k |-> "shadow", of |-> e]
Nowhere == [k |-> "none", of |-> NONE]

\* node.parentElement when the parent is an element, else NONE.
ParentOf(K, e) == IF \E p \in Elem : Has(K.light[p], e) THEN CHOOSE p \in Elem : Has(K.light[p], e) ELSE NONE

\* The host whose shadow root has e as a top-level child, else NONE.
HostOf(K, e) == IF \E p \in TreeNodes : Has(K.shadow[p], e) THEN CHOOSE p \in TreeNodes : Has(K.shadow[p], e) ELSE NONE

\* The structure as one value.
Tree == [light |-> lightKids, shadow |-> shadowKids, has |-> hasShadow, attr |-> slotAttr]

\* The top of e's light tree: the inclusive ancestor without a parent element.
RECURSIVE TopOf(_, _)
TopOf(K, e) == IF ParentOf(K, e) = NONE THEN e ELSE TopOf(K, ParentOf(K, e))

\* The host of the shadow root that is e's root, NONE when e's root is no shadow root.
RootHost(K, e) == HostOf(K, TopOf(K, e))

\* The descendants of a list of siblings in tree order (shadow roots are not entered).
RECURSIVE PreOrder(_, _)
PreOrder(K, s) == IF s = <<>> THEN <<>> ELSE <<Head(s)>> \o PreOrder(K, K.light[Head(s)]) \o PreOrder(K, Tail(s))

\* DOM "find a slot": the first slot, in tree order, of the shadow tree of
\* e's parent whose name is e's slot attribute (element.assignedSlot).
assignedSlot(K, e) ==
    LET p == ParentOf(K, e) IN
    IF p = NONE \/ p \notin K.has THEN NONE
    ELSE LET cands == SelectSeq(PreOrder(K, K.shadow[p]), LAMBDA s : IsSlot(s) /\ SlotName[s] = K.attr[e])
         IN IF cands = <<>> THEN NONE ELSE Head(cands)

\* DOM "find slottables": the children of the slot's host assigned to it.
assignedNodes(K, s) ==
    LET host == RootHost(K, s) IN
    IF host = NONE THEN <<>> ELSE SelectSeq(K.light[host], LAMBDA c : assignedSlot(K, c) = s)

\* DOM "find flattened slottables": slot.assignedElements({flatten: true}).
RECURSIVE assignedElementsFlat(_, _)
assignedElementsFlat(K, s) ==
    IF RootHost(K, s) = NONE THEN <<>>
    ELSE LET own == assignedNodes(K, s)
             slotables == IF own = <<>> THEN K.light[s] ELSE own
         IN Flatten([i \in 1..Len(slotables) |->
                IF IsSlot(slotables[i]) /\ RootHost(K, slotables[i]) # NONE
                THEN assignedElementsFlat(K, slotables[i])
                ELSE <<slotables[i]>>])

\* Event dispatch: the element above e on the path of a non-composed event
\* whose target has root shadow root rootHost (DOM "get the parent").
GetParent(K, e, rootHost) ==
    IF assignedSlot(K, e) # NONE THEN assignedSlot(K, e)
    ELSE IF ParentOf(K, e) # NONE THEN ParentOf(K, e)
    ELSE IF HostOf(K, e) # NONE /\ HostOf(K, e) # rootHost THEN HostOf(K, e)
    ELSE NONE

\* The slots on the path of a slotchange event fired at target, target first.
RECURSIVE PathFrom(_, _, _)
PathFrom(K, e, rootHost) ==
    IF e = NONE THEN <<>>
    ELSE (IF IsSlot(e) THEN <<e>> ELSE <<>>) \o PathFrom(K, GetParent(K, e, rootHost), rootHost)

EventPath(K, target) == PathFrom(K, target, RootHost(K, target))

\* The container e is in, Nowhere when e is detached.
ContainerOf(K, e) ==
    IF ParentOf(K, e) # NONE THEN Light(ParentOf(K, e))
    ELSE IF HostOf(K, e) # NONE THEN Shadow(HostOf(K, e))
    ELSE Nowhere

\* a is e or above e, through parents and shadow hosts.
RECURSIVE IsAbove(_, _, _)
IsAbove(K, a, e) ==
    \/ a = e
    \/ ParentOf(K, e) # NONE /\ IsAbove(K, a, ParentOf(K, e))
    \/ HostOf(K, e) # NONE /\ IsAbove(K, a, HostOf(K, e))

\* The tree with e taken out of its container.
Detach(K, e) ==
    [K EXCEPT !.light = [p \in Elem |-> Without(K.light[p], e)],
              !.shadow = [p \in TreeNodes |-> Without(K.shadow[p], e)]]

\* The tree with e appended to container c.
Attach(K, e, c) ==
    IF c.k = "light" THEN [K EXCEPT !.light[c.of] = Append(@, e)]
    ELSE [K EXCEPT !.shadow[c.of] = Append(@, e)]

\* The root of e's tree, through parents and shadow hosts.
RECURSIVE RootOf(_, _)
RootOf(K, e) == IF HostOf(K, TopOf(K, e)) # NONE THEN RootOf(K, HostOf(K, TopOf(K, e))) ELSE TopOf(K, e)

\* e is connected: the root of its tree is in the document. The elements the
\* page script never moves are the children of document.body.
Connected(K, e) == script.put[RootOf(K, e)] = {}

\* The slots among e and its descendants, in tree order.
SubSlots(K, e) == SelectSeq(PreOrder(K, <<e>>), IsSlot)

\* The slots of the tree that holds container c, in tree order; only the
\* slots of a shadow tree have assigned nodes.
TreeSlots(K, c) ==
    LET host == IF c.k = "shadow" THEN c.of ELSE RootHost(K, c.of)
    IN IF host = NONE THEN <<>> ELSE SelectSeq(PreOrder(K, K.shadow[host]), IsSlot)

\* DOM "assign slottables" for each slot of a list, the tree having changed
\* from K to K2: the slots whose assigned nodes are no longer the same.
Reassigned(K, K2, slots) ==
    SelectSeq(slots, LAMBDA s : s # NONE /\ assignedNodes(K, s) # assignedNodes(K2, s))

\* DOM "signal a slot change" for each slot of a list, in order: the signal
\* slots are an ordered set.
RECURSIVE Signalled(_, _)
Signalled(sig, slots) ==
    IF slots = <<>> THEN sig
    ELSE Signalled(IF Has(sig, Head(slots)) THEN sig ELSE Append(sig, Head(slots)), Tail(slots))

\* The parent of a removed or inserted node is a slot of a shadow tree
\* without assigned nodes: its fallback content changed.
FallbackChanged(K, c) ==
    IF c.k = "light" /\ IsSlot(c.of) /\ RootHost(K, c.of) # NONE /\ assignedNodes(K, c.of) = <<>>
    THEN <<c.of>> ELSE <<>>

\* DOM "remove" of e from container from, tree K becoming K1: the slot e was
\* assigned to, the parent slot whose fallback content e was, and, when e
\* holds a slot, the slots of the parent's tree and then those of e's tree.
SignalRemoved(sig, K, K1, e, from) ==
    IF from.k = "none" THEN sig
    ELSE Signalled(sig,
            Reassigned(K, K1, <<assignedSlot(K, e)>>)
            \o FallbackChanged(K1, from)
            \o (IF SubSlots(K, e) = <<>> THEN <<>>
                ELSE Reassigned(K, K1, TreeSlots(K1, from) \o SubSlots(K1, e))))

\* Insertion of e into container to, tree K1 becoming K2, in the order the
\* browser signals: first the slots of the tree e is now in whose assignment
\* changed (an inserted slot among them), then what the insertion changes for
\* the parent: the slot e is assigned to as a child of a shadow host, or the
\* parent slot whose fallback content e becomes.
SignalInserted(sig, K1, K2, e, to) ==
    IF to.k = "none" THEN sig
    ELSE Signalled(sig,
            Reassigned(K1, K2, TreeSlots(K2, to))
            \o (IF to.k = "light" /\ to.of \in K2.has
                THEN Reassigned(K1, K2, <<assignedSlot(K2, e)>>) ELSE <<>>)
            \o FallbackChanged(K1, to))

\* DOM attribute change steps of the slot attribute of e: the slot e was
\* assigned to, then the slot it is assigned to now.
SignalReslotted(sig, K, K2, e) ==
    Signalled(sig, Reassigned(K, K2, <<assignedSlot(K, e)>>) \o Reassigned(K, K2, <<assignedSlot(K2, e)>>))

\* ------------------------------------------------------- child observers

\* The records of one observer: a Map from child to its weight (added minus
\* removed), in the order the children were first mentioned.
Weigh(recs, child, delta) ==
    IF \E i \in 1..Len(recs) : recs[i].n = child
    THEN [i \in 1..Len(recs) |-> IF recs[i].n = child THEN [recs[i] EXCEPT !.w = @ + delta] ELSE recs[i]]
    ELSE Append(recs, [n |-> child, w |-> delta])

\* The mutation records queued when e leaves container from and enters container to.
\* obs are the elements that observe: a TreeNode observes its children from
\* its construction on, its shadow root from attachShadow on.
RecordLight(recs, obs, e, from, to) ==
    [p \in TreeNodes |->
        LET r1 == IF from = Light(p) /\ p \in obs THEN Weigh(recs[p], e, -1) ELSE recs[p]
        IN IF to = Light(p) /\ p \in obs THEN Weigh(r1, e, 1) ELSE r1]

RecordShadow(recs, obs, e, from, to) ==
    [p \in TreeNodes |->
        LET r1 == IF from = Shadow(p) /\ p \in obs THEN Weigh(recs[p], e, -1) ELSE recs[p]
        IN IF to = Shadow(p) /\ p \in obs THEN Weigh(r1, e, 1) ELSE r1]

\* The handler calls one observer callback makes for its batch of records:
\* added for a positive weight, removed for a negative one, none for zero.
Call(h, this, child) == [h |-> h, this |-> this, child |-> child]

NetCalls(recs, this, onAdded, onRemoved) ==
    Flatten([i \in 1..Len(recs) |->
        IF recs[i].w > 0 THEN <<Call(onAdded, this, recs[i].n)>>
        ELSE IF recs[i].w < 0 THEN <<Call(onRemoved, this, recs[i].n)>>
        ELSE <<>>])

\* ------------------------------------------------------------ event loop

\* Mutation records wait for the observers' callbacks.
RecordsPending == \E p \in TreeNodes : lrec[p] # <<>> \/ srec[p] # <<>>

\* The entries of the microtask queue. The mutation observer microtask
\* ("notify mutation observers") runs the observers' callbacks on their
\* records, then fires slotchange at the signal slots.
Notify == [k |-> "notify", this |-> NONE, child |-> NONE, t |-> NONE]

\* defer(() => this.__handleDistributedChildren(slot))
Deferred(this, slot) == [k |-> "defer", this |-> this, child |-> slot, t |-> NONE]

\* The reaction of whenDefined(...).then for the composed callback cb.
Reaction(cb) == [k |-> "whenDefined", this |-> cb.p, child |-> cb.c, t |-> cb.t]

\* DOM "queue a mutation observer microtask": the microtask is queued unless
\* it is in the queue already.
QueueNotify(mq) == IF Has(mq, Notify) THEN mq ELSE Append(mq, Notify)

\* The microtask queue, without the mutation observer microtask at its head
\* once that has delivered every record and fired every event.
Due ==
    IF micro # <<>> /\ Head(micro) = Notify /\ ~RecordsPending /\ signaled = <<>>
    THEN Tail(micro) ELSE micro

\* A continuation is in the queue: a defer()red call or a whenDefined reaction.
ContinuationReady == \E i \in 1..Len(Due) : Due[i] # Notify

\* Nothing is left to deliver.
Quiescent == inbox = <<>> /\ Due = <<>>

\* The page script may act: at the start of a task, or later in a task whose
\* microtasks have not begun to run.
ScriptMayRun ==
    /\ inbox = <<>>
    /\ Quiescent \/ ops < MaxOps
    /\ Len(waiting) <= MaxWaiting
    /\ \A c \in TreeNodes : net[c] \in (0 - MaxNet)..MaxNet

\* The mutation count after one more mutation by the script.
OpsAfter == IF Quiescent THEN 1 ELSE ops + 1

\* The microtask checkpoint runs the queue in order. While the mutation
\* observer microtask is at its head, the observers' callbacks run, then the
\* slotchange events fire; a continuation runs when it is at the head.
ObserversMayRun == inbox = <<>> /\ micro # <<>> /\ Head(micro) = Notify
EventsMayFire == ObserversMayRun /\ ~RecordsPending
ContinuationsMayRun == inbox = <<>> /\ Due # <<>> /\ Head(Due) # Notify

\* ------------------------------------------------------ the tracker state

\* __distributedChildren and a WeakMap entry are either undefined or a list.
Undefined == [def |-> FALSE, items |-> <<>>]
Some(items) == [def |-> TRUE, items |-> items]

\* Set.prototype.add: insertion order is kept, a member is not added twice.
SetAdd(items, e) == IF Has(items, e) THEN items ELSE Append(items, e)

\* A delivered (or waiting) lifecycle callback on parent p about child c.
Cb(k, p, c, t) == [k |-> k, p |-> p, c |-> c, t |-> t]

\* The result val of query q ("parent" or "children") on node this; nth
\* counts the consecutive calls of the same query.
Answer(q, this, val, nth) == [q |-> q, of |-> this, val |-> val, nth |-> nth]

NoAnswer == Answer(NONE, NONE, <<>>, 0)

\* The state the script and the handlers read and write, as one value: the
\* tree, the queued notifications and the trackers' fields; em collects the
\* callbacks delivered by the step, threw whether the step raised an error.
Cur ==
    [light |-> lightKids, shadow |-> shadowKids, has |-> hasShadow, attr |-> slotAttr,
     lrec |-> lrec, srec |-> srec, sig |-> signaled, sroot |-> shadowRoot,
     ipd |-> ipd, dp |-> dp, srp |-> srp, dc |-> dc, prev |-> prev, lis |-> lis,
     def |-> defined, mq |-> Due, wait |-> waiting, em |-> <<>>, threw |-> FALSE]

TreeOf(W) == [light |-> W.light, shadow |-> W.shadow, has |-> W.has, attr |-> W.attr]

\* What an observer of the callbacks holds after the callbacks in em.
RECURSIVE TagAfter(_, _)
TagAfter(tg, em) ==
    IF em = <<>> THEN tg
    ELSE LET cb == Head(em) IN
         TagAfter([tg EXCEPT ![cb.p][cb.c] = IF cb.k = "composed" THEN cb.t ELSE NONE], Tail(em))

RECURSIVE NetAfter(_, _)
NetAfter(nt, em) ==
    IF em = <<>> THEN nt
    ELSE LET cb == Head(em) IN
         NetAfter([nt EXCEPT ![cb.c] = IF cb.k = "composed" THEN @ + 1 ELSE @ - 1], Tail(em))

\* The fields after a step has left them as T.
Committed(T) ==
    /\ lightKids' = T.light
    /\ shadowKids' = T.shadow
    /\ hasShadow' = T.has
    /\ slotAttr' = T.attr
    /\ lrec' = T.lrec
    /\ srec' = T.srec
    /\ signaled' = T.sig
    /\ shadowRoot' = T.sroot
    /\ ipd' = T.ipd
    /\ dp' = T.dp
    /\ srp' = T.srp
    /\ dc' = T.dc
    /\ prev' = T.prev
    /\ lis' = T.lis
    /\ defined' = T.def
    /\ micro' = T.mq
    /\ waiting' = T.wait
    /\ emitted' = T.em
    /\ threw' = (threw \/ T.threw)
    /\ tag' = TagAfter(tag, T.em)
    /\ net' = NetAfter(net, T.em)
    /\ UNCHANGED aside

\* The state after a step that is no query: it leaves no answer.
Commit(T) == Committed(T) /\ answer' = NoAnswer

\* ---------------------------------------------------- the tracker handlers

\* child.matches(':defined'), else customElements.whenDefined(...).then: the
\* promise of a registered definition is resolved, and the reaction is queued
\* at once.
triggerChildComposedCallback(T, this, child, connectionType) ==
    IF child \in T.def
    THEN [T EXCEPT !.em = Append(@, Cb("composed", this, child, connectionType))]
    ELSE IF child \in registered
    THEN [T EXCEPT !.mq = Append(@, Reaction(Cb("composed", this, child, connectionType)))]
    ELSE [T EXCEPT !.wait = Append(@, Cb("composed", this, child, connectionType))]

triggerChildUncomposedCallback(T, this, child, connectionType) ==
    [T EXCEPT !.em = Append(@, Cb("uncomposed", this, child, connectionType))]

\* The loop of __getDistributedChildDifference over previousNodes: newNodes is
\* edited in place and ends up as the added list.
RECURSIVE DiffLoop(_, _, _, _)
DiffLoop(previousNodes, i, newNodes, removed) ==
    IF i > Len(previousNodes) THEN [added |-> newNodes, removed |-> removed]
    ELSE LET oldNode == previousNodes[i]
             newIndex == IndexOf(newNodes, oldNode)
         IN IF newIndex = 0
            THEN DiffLoop(previousNodes, i + 1, newNodes, Append(removed, oldNode))
            ELSE DiffLoop(previousNodes, i + 1, DropAt(newNodes, i), removed)

\* The resolution that ignores whether the slot is itself assigned, for
\* every tracker as for a scene.
ResolveNewNodesFlat(this, slot) == assignedElementsFlat(Tree, slot)

\* The list a tracker resolves for a slot.
ResolveNewNodes(this, slot) ==
    IF ~isScene(this) /\ assignedSlot(Tree, slot) # NONE THEN <<>> ELSE assignedElementsFlat(Tree, slot)

\* __getDistributedChildDifference raising an error for a slot that has no
\* recorded snapshot.
getDistributedChildDifferenceStrict(T, this, slot) ==
    LET previousNodes == IF T.prev[this][slot].def THEN T.prev[this][slot].items ELSE <<>>
        newNodes == ResolveNewNodes(this, slot)
        diff == DiffLoop(previousNodes, 1, newNodes, <<>>)
    IN IF T.prev[this][slot].def
       THEN [T |-> [T EXCEPT !.prev[this][slot] = Some(newNodes)], added |-> diff.added, removed |-> diff.removed]
       ELSE [T |-> [T EXCEPT !.threw = TRUE], added |-> <<>>, removed |-> <<>>]

\* __getDistributedChildDifference saving newNodes itself, not a clone: the
\* snapshot is the list the in-place diff leaves.
getDistributedChildDifferenceAliased(T, this, slot) ==
    LET previousNodes == IF T.prev[this][slot].def THEN T.prev[this][slot].items ELSE <<>>
        newNodes == ResolveNewNodes(this, slot)
        diff == DiffLoop(previousNodes, 1, newNodes, <<>>)
    IN [T |-> [T EXCEPT !.prev[this][slot] = Some(diff.added)], added |-> diff.added, removed |-> diff.removed]

getDistributedChildDifference(T, this, slot) ==
    LET previousNodes == IF T.prev[this][slot].def THEN T.prev[this][slot].items ELSE <<>>
        newNodes == ResolveNewNodes(this, slot)
        diff == DiffLoop(previousNodes, 1, newNodes, <<>>)
    IN [T |-> [T EXCEPT !.prev[this][slot] = Some(newNodes)], added |-> diff.added, removed |-> diff.removed]

\* The added loop clearing the whole set of the node's previous distributed
\* parent instead of deleting the node from it.
RECURSIVE AddedLoopClearing(_, _, _, _)
AddedLoopClearing(T, this, added, i) ==
    IF i > Len(added) THEN T
    ELSE LET addedNode == added[i] IN
         IF ~InstanceOfTreeNode(T, addedNode) THEN AddedLoopClearing(T, this, added, i + 1)
         ELSE LET distributedParent == T.dp[addedNode]
                  T1 == IF distributedParent # NONE /\ T.dc[distributedParent].def
                        THEN [T EXCEPT !.dc[distributedParent] = Undefined]
                        ELSE T
                  mine == IF T1.dc[this].def THEN T1.dc[this].items ELSE <<>>
                  T2 == [T1 EXCEPT !.dp[addedNode] = this, !.dc[this] = Some(SetAdd(mine, addedNode))]
              IN AddedLoopClearing(triggerChildComposedCallback(T2, this, addedNode, "slot"), this, added, i + 1)

\* The loop of __handleDistributedChildren over the added nodes.
RECURSIVE AddedLoop(_, _, _, _)
AddedLoop(T, this, added, i) ==
    IF i > Len(added) THEN T
    ELSE LET addedNode == added[i] IN
         IF ~InstanceOfTreeNode(T, addedNode) THEN AddedLoop(T, this, added, i + 1)
         ELSE LET distributedParent == T.dp[addedNode]
                  T1 == IF distributedParent # NONE /\ T.dc[distributedParent].def
                        THEN LET rest == Without(T.dc[distributedParent].items, addedNode)
                             IN [T EXCEPT !.dc[distributedParent] = IF rest = <<>> THEN Undefined ELSE Some(rest)]
                        ELSE T
                  mine == IF T1.dc[this].def THEN T1.dc[this].items ELSE <<>>
                  T2 == [T1 EXCEPT !.dp[addedNode] = this, !.dc[this] = Some(SetAdd(mine, addedNode))]
              IN AddedLoop(triggerChildComposedCallback(T2, this, addedNode, "slot"), this, added, i + 1)

\* The removed loop that keeps the set it has emptied.
RECURSIVE RemovedLoopKeeping(_, _, _, _)
RemovedLoopKeeping(T, this, removed, i) ==
    IF i > Len(removed) THEN T
    ELSE LET removedNode == removed[i] IN
         IF ~InstanceOfTreeNode(T, removedNode) THEN RemovedLoopKeeping(T, this, removed, i + 1)
         ELSE LET T1 == [T EXCEPT !.dp[removedNode] = NONE] IN
              IF ~T1.dc[this].def THEN [T1 EXCEPT !.threw = TRUE]
              ELSE LET T2 == [T1 EXCEPT !.dc[this] = Some(Without(T1.dc[this].items, removedNode))]
                   IN RemovedLoopKeeping(triggerChildUncomposedCallback(T2, this, removedNode, "slot"), this, removed, i + 1)

\* The loop of __handleDistributedChildren over the removed nodes; deleting
\* from an undefined __distributedChildren raises a TypeError and ends the handler.
RECURSIVE RemovedLoop(_, _, _, _)
RemovedLoop(T, this, removed, i) ==
    IF i > Len(removed) THEN T
    ELSE LET removedNode == removed[i] IN
         IF ~InstanceOfTreeNode(T, removedNode) THEN RemovedLoop(T, this, removed, i + 1)
         ELSE LET T1 == [T EXCEPT !.dp[removedNode] = NONE] IN
              IF ~T1.dc[this].def THEN [T1 EXCEPT !.threw = TRUE]
              ELSE LET rest == Without(T1.dc[this].items, removedNode)
                       T2 == [T1 EXCEPT !.dc[this] = IF rest = <<>> THEN Undefined ELSE Some(rest)]
                   IN RemovedLoop(triggerChildUncomposedCallback(T2, this, removedNode, "slot"), this, removed, i + 1)

handleDistributedChildren(T, this, slot) ==
    LET diff == getDistributedChildDifference(T, this, slot)
    IN RemovedLoop(AddedLoop(diff.T, this, diff.added, 1), this, diff.removed, 1)

\* EventTarget.addEventListener / removeEventListener: a listener is the pair
\* of its callback (one per tracker) and its capture flag.
Listener(this, capture) == [this |-> this, capture |-> capture]

addEventListener(ls, this, capture) == SetAdd(ls, Listener(this, capture))

removeEventListener(ls, this, capture) == Without(ls, Listener(this, capture))

\* __previousSlotAssignedNodes.delete(child) after the handling, skipped when
\* the handling raised.
ForgetSlot(T, this, slot) ==
    IF T.threw THEN T ELSE [T EXCEPT !.prev[this][slot] = Undefined]

\* childConnectedCallback handling a slot child at once, without defer().
childConnectedCallbackSync(T, this, child) ==
    IF isNode(child)
    THEN IF ~isScene(this) /\ this \in T.sroot
         THEN [T EXCEPT !.ipd[child] = TRUE]
         ELSE triggerChildComposedCallback(T, this, child, "actual")
    ELSE IF IsSlot(child)
    THEN handleDistributedChildren([T EXCEPT !.lis[child] = addEventListener(@, this, FALSE)], this, child)
    ELSE T

\* childConnectedCallback testing `child instanceof TreeNode` where the code
\* tests isNode(child).
childConnectedCallbackAny(T, this, child) ==
    IF InstanceOfTreeNode(T, child)
    THEN IF ~isScene(this) /\ this \in T.sroot
         THEN [T EXCEPT !.ipd[child] = TRUE]
         ELSE triggerChildComposedCallback(T, this, child, "actual")
    ELSE IF IsSlot(child)
    THEN [T EXCEPT !.lis[child] = addEventListener(@, this, FALSE),
                   !.mq = Append(@, Deferred(this, child))]
    ELSE T

\* childConnectedCallback that defers every 'actual' callback, also that of a
\* defined child.
childConnectedCallbackLazy(T, this, child) ==
    IF isNode(child)
    THEN IF ~isScene(this) /\ this \in T.sroot
         THEN [T EXCEPT !.ipd[child] = TRUE]
         ELSE [T EXCEPT !.wait = Append(@, Cb("composed", this, child, "actual"))]
    ELSE IF IsSlot(child)
    THEN [T EXCEPT !.lis[child] = addEventListener(@, this, FALSE),
                   !.mq = Append(@, Deferred(this, child))]
    ELSE T

childConnectedCallback(T, this, child) ==
    IF isNode(child)
    THEN IF ~isScene(this) /\ this \in T.sroot
         THEN [T EXCEPT !.ipd[child] = TRUE]
         ELSE triggerChildComposedCallback(T, this, child, "actual")
    ELSE IF IsSlot(child)
    THEN [T EXCEPT !.lis[child] = addEventListener(@, this, FALSE),
                   !.mq = Append(@, Deferred(this, child))]
    ELSE T

childDisconnectedCallback(T, this, child) ==
    IF isNode(child)
    THEN IF ~isScene(this) /\ this \in T.sroot
         THEN [T EXCEPT !.ipd[child] = FALSE]
         ELSE triggerChildUncomposedCallback(T, this, child, "actual")
    ELSE IF IsSlot(child)
    THEN ForgetSlot(handleDistributedChildren(
            [T EXCEPT !.lis[child] = removeEventListener(@, this, TRUE)], this, child), this, child)
    ELSE T

shadowRootChildAdded(T, this, child) ==
    IF InstanceOfTreeNode(T, child)
    THEN triggerChildComposedCallback([T EXCEPT !.srp[child] = this], this, child, "root")
    ELSE IF IsSlot(child)
    THEN handleDistributedChildren([T EXCEPT !.lis[child] = addEventListener(@, this, FALSE)], this, child)
    ELSE T

shadowRootChildRemoved(T, this, child) ==
    IF InstanceOfTreeNode(T, child)
    THEN triggerChildUncomposedCallback([T EXCEPT !.srp[child] = NONE], this, child, "root")
    ELSE IF IsSlot(child)
    THEN ForgetSlot(handleDistributedChildren(
            [T EXCEPT !.lis[child] = removeEventListener(@, this, TRUE)], this, child), this, child)
    ELSE T

onChildSlotChange(T, this, slot) == handleDistributedChildren(T, this, slot)

\* The loop of attachShadow over the host's children.
RECURSIVE AttachLoop(_, _, _, _)
AttachLoop(T, this, children, i) ==
    IF i > Len(children) THEN T
    ELSE LET child == children[i] IN
         IF ~InstanceOfTreeNode(T, child) THEN AttachLoop(T, this, children, i + 1)
         ELSE AttachLoop(triggerChildUncomposedCallback([T EXCEPT !.ipd[child] = TRUE], this, child, "actual"),
                         this, children, i + 1)

\* attachShadow without the early return for scenes.
attachShadowOnScene(T, this) ==
    AttachLoop([T EXCEPT !.has = @ \cup {this}, !.sroot = @ \cup {this}], this, T.light[this], 1)

\* attachShadow(options): super.attachShadow, then the tracker's part.
attachShadowOn(T, this) ==
    LET T1 == [T EXCEPT !.has = @ \cup {this}] IN
    IF isScene(this) THEN T1
    ELSE AttachLoop([T1 EXCEPT !.sroot = @ \cup {this}], this, T.light[this], 1)

\* this.attachShadow(options) as the page calls it: the method of TreeNode
\* once the element is upgraded, and before that the native method, which
\* only creates the shadow root.
hostAttachShadow(T, this) ==
    IF InstanceOfTreeNode(T, this) THEN attachShadowOn(T, this)
    ELSE [T EXCEPT !.has = @ \cup {this}]

\* ------------------------------------------------ the composed-tree queries

\* document.body: the parent element of the page's top-level elements, which
\* the page script never moves.
Body == "body"

\* this.parentElement, in the tree K
parentElement(K, this) ==
    IF ParentOf(K, this) # NONE THEN ParentOf(K, this)
    ELSE IF HostOf(K, this) = NONE /\ Connected(K, this) THEN Body
    ELSE NONE

\* hasShadow(el) of core/utils.js: the element owns a shadow root.
hasShadowOf(K, el) == el \in K.has

\* slot.parentNode is a ShadowRoot: its host; else slot.parentElement.
SlotParent(K, slot) == IF HostOf(K, slot) # NONE THEN HostOf(K, slot) ELSE parentElement(K, slot)

\* A getter runs in the world T and leaves a world and a value: world is T
\* after every assignment the getter made, val what it returned (a fresh
\* array, or an element, NONE for null).
Got(T, val) == [world |-> T, val |-> val]

\* get _composedParent
getComposedParent(T, this) ==
    LET K == TreeOf(T)
        parent == parentElement(K, this)
        pointer == IF T.dp[this] # NONE THEN T.dp[this] ELSE T.srp[this]
    IN Got(T,
        IF parent # NONE /\ InstanceOfTreeNode(T, parent) /\ isScene(parent) THEN parent
        ELSE IF pointer # NONE THEN pointer
        ELSE IF parent # NONE /\ IsSlot(parent)
             THEN IF Len(assignedElementsFlat(K, parent)) > 0 THEN NONE ELSE SlotParent(K, parent)
        ELSE IF HostOf(K, this) # NONE THEN HostOf(K, this)
        ELSE IF parent # NONE
             THEN IF ~hasShadowOf(K, parent) THEN parent
                  ELSE IF assignedSlot(K, this) = NONE THEN NONE
                  ELSE SlotParent(K, assignedSlot(K, this))
        ELSE NONE)

\* get _shadowRootChildren
getShadowRootChildren(T, this) ==
    Got(T, IF this \notin T.sroot THEN <<>>
           ELSE SelectSeq(T.shadow[this], LAMBDA n : InstanceOfTreeNode(T, n)))

\* get _distributedShadowRootChildren
getDistributedShadowRootChildren(T, this) ==
    LET K == TreeOf(T)
        children == IF this \in T.sroot THEN T.shadow[this] ELSE <<>>
    IN Got(T, Flatten([i \in 1..Len(children) |->
        IF IsSlot(children[i]) /\ assignedSlot(K, children[i]) = NONE
        THEN SelectSeq(assignedElementsFlat(K, children[i]), isNode)
        ELSE <<>>]))

\* _composedChildren creating the distributed-children set it finds
\* undefined (this.__distributedChildren ||= new Set) instead of reading
\* around it.
getComposedChildrenLazy(T, this) ==
    IF ~isScene(this) /\ this \in T.sroot
    THEN LET distributed == getDistributedShadowRootChildren(T, this)
             rooted == getShadowRootChildren(distributed.world, this)
         IN Got(rooted.world, distributed.val \o rooted.val)
    ELSE Got([T EXCEPT !.dc[this] = IF @.def THEN @ ELSE Some(<<>>)],
             (IF T.dc[this].def THEN T.dc[this].items ELSE <<>>)
             \o SelectSeq(T.light[this], LAMBDA n : InstanceOfTreeNode(T, n)))

\* get _composedChildren: the two getters it calls run one after the other.
getComposedChildren(T, this) ==
    IF ~isScene(this) /\ this \in T.sroot
    THEN LET distributed == getDistributedShadowRootChildren(T, this)
             rooted == getShadowRootChildren(distributed.world, this)
         IN Got(rooted.world, distributed.val \o rooted.val)
    ELSE Got(T, (IF T.dc[this].def THEN T.dc[this].items ELSE <<>>)
                \o SelectSeq(T.light[this], LAMBDA n : InstanceOfTreeNode(T, n)))

\* _composedParent reading __shadowRootParent before __distributedParent.
composedParentRootFirst(this) ==
    LET parent == parentElement(Tree, this)
        pointer == IF srp[this] # NONE THEN srp[this] ELSE dp[this]
    IN IF parent # NONE /\ IsTreeNode(parent) /\ isScene(parent) THEN parent
       ELSE IF pointer # NONE THEN pointer
       ELSE IF parent # NONE /\ IsSlot(parent)
            THEN IF Len(assignedElementsFlat(Tree, parent)) > 0 THEN NONE ELSE SlotParent(Tree, parent)
       ELSE IF HostOf(Tree, this) # NONE THEN HostOf(Tree, this)
       ELSE IF parent # NONE
            THEN IF ~hasShadowOf(Tree, parent) THEN parent
                 ELSE IF assignedSlot(Tree, this) = NONE THEN NONE
                 ELSE SlotParent(Tree, assignedSlot(Tree, this))
       ELSE NONE

\* _composedParent answering null for every child of a host with a shadow
\* root that has no pointer, without looking at its assigned slot.
composedParentUnslotted(this) ==
    LET parent == parentElement(Tree, this)
        pointer == IF dp[this] # NONE THEN dp[this] ELSE srp[this]
    IN IF parent # NONE /\ IsTreeNode(parent) /\ isScene(parent) THEN parent
       ELSE IF pointer # NONE THEN pointer
       ELSE IF parent # NONE /\ IsSlot(parent)
            THEN IF Len(assignedElementsFlat(Tree, parent)) > 0 THEN NONE ELSE SlotParent(Tree, parent)
       ELSE IF HostOf(Tree, this) # NONE THEN HostOf(Tree, this)
       ELSE IF parent # NONE
            THEN IF ~hasShadowOf(Tree, parent) THEN parent ELSE NONE
       ELSE NONE

\* _composedParent answering null under every parent that is no TreeNode.
composedParentTracked(this) ==
    LET parent == parentElement(Tree, this)
        pointer == IF dp[this] # NONE THEN dp[this] ELSE srp[this]
    IN IF parent # NONE /\ IsTreeNode(parent) /\ isScene(parent) THEN parent
       ELSE IF pointer # NONE THEN pointer
       ELSE IF parent # NONE /\ IsSlot(parent)
            THEN IF Len(assignedElementsFlat(Tree, parent)) > 0 THEN NONE ELSE SlotParent(Tree, parent)
       ELSE IF HostOf(Tree, this) # NONE THEN HostOf(Tree, this)
       ELSE IF parent # NONE
            THEN IF ~IsTreeNode(parent) THEN NONE
                 ELSE IF ~hasShadowOf(Tree, parent) THEN parent
                 ELSE IF assignedSlot(Tree, this) = NONE THEN NONE
                 ELSE SlotParent(Tree, assignedSlot(Tree, this))
       ELSE NONE

\* this._composedParent in the current state
composedParent(this) == getComposedParent(Cur, this).val

\* this._shadowRootChildren in the current state
shadowRootChildren(this) == getShadowRootChildren(Cur, this).val

\* this._distributedShadowRootChildren in the current state
distributedShadowRootChildren(this) == getDistributedShadowRootChildren(Cur, this).val

\* _composedChildren with the shadow root's own children ahead of the
\* distributed ones.
composedChildrenRootFirst(this) ==
    IF ~isScene(this) /\ this \in shadowRoot
    THEN shadowRootChildren(this) \o distributedShadowRootChildren(this)
    ELSE (IF dc[this].def THEN dc[this].items ELSE <<>>) \o SelectSeq(lightKids[this], IsTreeNode)

\* this._composedChildren in the current state
composedChildren(this) == getComposedChildren(Cur, this).val

\* ------------------------------------------------------------ page script

\* The upgrade of the registered elements that a step has connected: each
\* becomes an instance of its class, whose constructor initialises the fields
\* __isPossiblyDistributedToShadowRoot, __distributedParent and
\* __shadowRootParent.
Upgraded(T, reg) ==
    LET up == {e \in reg \ T.def : Connected(TreeOf(T), e)}
    IN IF up = {} THEN T ELSE
       [T EXCEPT !.def = @ \cup up,
                 !.ipd = [e \in TreeNodes |-> IF e \in up THEN FALSE ELSE @[e]],
                 !.dp = [e \in TreeNodes |-> IF e \in up THEN NONE ELSE @[e]],
                 !.srp = [e \in TreeNodes |-> IF e \in up THEN NONE ELSE @[e]]]

\* The state after the script moved e from container from to container to
\* (either may be Nowhere) or changed its slot attribute, giving tree K2 and
\* signal slots sig: the observers' records, and the mutation observer
\* microtask when a record was queued or a slot signalled.
Mutated(T, K2, sig, e, from, to) ==
    LET T1 == [T EXCEPT !.light = K2.light,
                        !.shadow = K2.shadow,
                        !.attr = K2.attr,
                        !.lrec = RecordLight(T.lrec, T.def, e, from, to),
                        !.srec = RecordShadow(T.srec, T.sroot, e, from, to),
                        !.sig = sig]
    IN Upgraded(IF T1.lrec # T.lrec \/ T1.srec # T.srec \/ T1.sig # T.sig
                THEN [T1 EXCEPT !.mq = QueueNotify(@)] ELSE T1, registered)

\* container.append(e): e is removed from the container it is in, then
\* inserted into c.
Appended(T, e, c) ==
    LET K == TreeOf(T)
        from == ContainerOf(K, e)
        K1 == Detach(K, e)
        K2 == Attach(K1, e, c)
    IN Mutated(T, K2, SignalInserted(SignalRemoved(T.sig, K, K1, e, from), K1, K2, e, c), e, from, c)

\* e.remove()
Removed(T, e) ==
    LET K == TreeOf(T)
        from == ContainerOf(K, e)
        K1 == Detach(K, e)
    IN Mutated(T, K1, SignalRemoved(T.sig, K, K1, e, from), e, from, Nowhere)

\* e.slot = name
Reslotted(T, e, name) ==
    LET K == TreeOf(T)
        K2 == [K EXCEPT !.attr[e] = name]
    IN Mutated(T, K2, SignalReslotted(T.sig, K, K2, e), e, Nowhere, Nowhere)

\* One statement of a script.
DoAttachShadow(e) == [op |-> "attachShadow", e |-> e, c |-> Nowhere, name |-> NONE]
DoAppend(c, e) == [op |-> "append", e |-> e, c |-> c, name |-> NONE]
DoSlot(e, name) == [op |-> "slot", e |-> e, c |-> Nowhere, name |-> name]

Did(T, st) ==
    CASE st.op = "attachShadow" -> hostAttachShadow(T, st.e)
      [] st.op = "append" -> Appended(T, st.e, st.c)
      [] st.op = "slot" -> Reslotted(T, st.e, st.name)

\* The state after the statements sts ran in one task.
RECURSIVE Built(_, _)
Built(T, sts) ==
    IF sts = <<>> THEN T
    ELSE CHOOSE after \in {Built(T1, Tail(sts)) : T1 \in {Did(T, Head(sts))}} : TRUE

\* A page: build are the statements that construct it, in one task; then the
\* script goes on: put[e] are the containers it appends e to (and removes it
\* from), hosts the elements it calls attachShadow on, reslot the elements
\* whose slot attribute it changes. late are the elements defined only after
\* the page is built, ask the nodes whose composed parent and composed
\* children it reads.
Page(build, put, hosts, reslot, late, ask) ==
    [build |-> build, put |-> put, hosts |-> hosts, reslot |-> reslot, late |-> late, ask |-> ask]

Stays == [e \in Elem |-> {}]

\* Two trackers: host h has slot s1 and node n in its shadow root, n holds
\* slot s2; x and y are children of h, x assigned to s1 and y to s2. The
\* script re-slots x between s1 (tracked by h) and s2 (tracked by n), moves
\* x between the children of h and h's shadow root, and removes and re-adds
\* y and s1.
TwoTrackers ==
    Page(<<DoAttachShadow("h"), DoAppend(Shadow("h"), "s1"), DoAppend(Shadow("h"), "n"),
           DoAppend(Light("n"), "s2"), DoAppend(Light("h"), "x"),
           DoSlot("y", "b"), DoAppend(Light("h"), "y")>>,
         [Stays EXCEPT !["x"] = {Light("h"), Shadow("h")}, !["y"] = {Light("h")}, !["s1"] = {Shadow("h")}],
         {}, {"x"}, {}, {})

\* A shared slot: host h has slot s1 in its shadow root, and x and y are
\* children of h assigned to s1. The script removes and re-adds y and s1, and
\* moves y between h and x.
SharedSlot ==
    Page(<<DoAttachShadow("h"), DoAppend(Shadow("h"), "s1"),
           DoAppend(Light("h"), "x"), DoAppend(Light("h"), "y")>>,
         [Stays EXCEPT !["y"] = {Light("h"), Light("x")}, !["s1"] = {Shadow("h")}],
         {}, {}, {}, {"y"})

\* A late definition: x is a child of h and not yet defined; slot s1 is a
\* child of n. The script moves x between h and n, attaches a shadow root to
\* h, and the definition of x arrives.
LateDefinition ==
    Page(<<DoAppend(Light("h"), "x"), DoAppend(Light("n"), "s1")>>,
         [Stays EXCEPT !["x"] = {Light("h"), Light("n")}, !["s1"] = {Light("n")}],
         {"h"}, {}, {"x"}, {"x"})

\* Three slotted children: host h has slot s1 in its shadow root; n and x are
\* children of h assigned to s1, and the script appends y as the third,
\* moves it to h's shadow root and removes it again.
ThreeSlotted ==
    Page(<<DoAttachShadow("h"), DoAppend(Shadow("h"), "s1"),
           DoAppend(Light("h"), "n"), DoAppend(Light("h"), "x")>>,
         [Stays EXCEPT !["y"] = {Light("h"), Shadow("h")}],
         {}, {}, {}, {"y", "h"})

\* Default content: host h has slot s1 in its shadow root and y is a child
\* of s1, its default content; the script appends x to h, where it is
\* assigned to s1, and removes it again.
DefaultContent ==
    Page(<<DoAttachShadow("h"), DoAppend(Shadow("h"), "s1"), DoAppend(Light("s1"), "y")>>,
         [Stays EXCEPT !["x"] = {Light("h")}],
         {}, {}, {}, {"y"})

\* A scene in a shadow tree: host h has the scene sc in its shadow root; sc
\* has slot s1 as a child and its own shadow root with slot s2, to which s1
\* is assigned; x is a child of h, assigned to s1. The script moves x between
\* the children of h, h's shadow root and the children of sc.
InScene ==
    Page(<<DoAttachShadow("h"), DoAppend(Shadow("h"), "sc"), DoAttachShadow("sc"),
           DoAppend(Shadow("sc"), "s2"), DoAppend(Light("sc"), "s1"), DoAppend(Light("h"), "x")>>,
         [Stays EXCEPT !["x"] = {Light("h"), Shadow("h"), Light("sc")}],
         {}, {}, {}, {"x", "sc"})

\* A nested slot: host h has node n in its shadow root; n has slot s1 as a
\* child and a shadow root of its own; x is a child of h, assigned to s1. The
\* script puts slot s2 into n's shadow root, where s1 is assigned to it, and
\* removes and re-adds x and s2.
NestedSlot ==
    Page(<<DoAttachShadow("h"), DoAppend(Shadow("h"), "n"), DoAttachShadow("n"),
           DoAppend(Light("n"), "s1"), DoAppend(Light("h"), "x")>>,
         [Stays EXCEPT !["x"] = {Light("h")}, !["s2"] = {Shadow("n")}],
         {}, {}, {}, {})

\* A plain parent: x is a child of the plain element d, which is no TreeNode,
\* owns no shadow root and is itself a child of the node h. The script moves
\* x between d, h and the scene sc, appends sc to h and removes it, and
\* attaches a shadow root to sc.
PlainParent ==
    Page(<<DoAppend(Light("h"), "d"), DoAppend(Light("d"), "x")>>,
         [Stays EXCEPT !["x"] = {Light("d"), Light("h"), Light("sc")}, !["sc"] = {Light("h")}],
         {"sc"}, {}, {}, {"x"})

\* Two hosts: h and n both own a tracked shadow root; x is a child of h. The
\* script moves x between the children of h, the children of n and the two
\* shadow roots.
TwoHosts ==
    Page(<<DoAttachShadow("h"), DoAttachShadow("n"), DoAppend(Light("h"), "x")>>,
         [Stays EXCEPT !["x"] = {Light("h"), Light("n"), Shadow("h"), Shadow("n")}],
         {}, {}, {}, {})

Pages == {TwoTrackers, SharedSlot, LateDefinition, ThreeSlotted, DefaultContent, InScene, NestedSlot, PlainParent, TwoHosts}

InitAttr == [e \in Elem |-> IF e = "s1" THEN "b" ELSE "a"]

Step(op, this, child) == [op |-> op, this |-> this, child |-> child]

\* Nothing attached, nothing tracked.
Blank ==
    [light |-> [e \in Elem |-> <<>>], shadow |-> [p \in TreeNodes |-> <<>>],
     has |-> {}, attr |-> InitAttr,
     lrec |-> [p \in TreeNodes |-> <<>>], srec |-> [p \in TreeNodes |-> <<>>],
     sig |-> <<>>, sroot |-> {},
     ipd |-> [e \in TreeNodes |-> FALSE],
     dp |-> [e \in TreeNodes |-> NONE],
     srp |-> [e \in TreeNodes |-> NONE],
     dc |-> [e \in TreeNodes |-> Undefined],
     prev |-> [p \in TreeNodes |-> [s \in Slots |-> Undefined]],
     lis |-> [s \in Slots |-> <<>>],
     def |-> Elem, mq |-> <<>>, wait |-> <<>>, em |-> <<>>, threw |-> FALSE]

\* The diff has been given lists previous and current, and has not run yet.
Probe(previous, current) ==
    [previous |-> previous, current |-> current, done |-> FALSE, added |-> <<>>, removed |-> <<>>]

NoProbe == Probe(<<>>, <<>>)

NoTag == [p \in TreeNodes |-> [c \in TreeNodes |-> NONE]]
NoNet == [c \in TreeNodes |-> 0]

\* The page has been constructed; none of its notifications is delivered yet.
InitPage(page) ==
    LET T == Built([Blank EXCEPT !.def = Elem \ page.late], page.build) IN
    /\ script = page
    /\ registered = Elem \ page.late
    /\ defined = T.def
    /\ lightKids = T.light
    /\ shadowKids = T.shadow
    /\ hasShadow = T.has
    /\ slotAttr = T.attr
    /\ lrec = T.lrec
    /\ srec = T.srec
    /\ signaled = T.sig
    /\ inbox = <<>>
    /\ ops = MaxOps
    /\ micro = T.mq
    /\ waiting = T.wait
    /\ shadowRoot = T.sroot
    /\ ipd = T.ipd
    /\ dp = T.dp
    /\ srp = T.srp
    /\ dc = T.dc
    /\ prev = T.prev
    /\ lis = T.lis
    /\ threw = T.threw
    /\ emitted = T.em
    /\ last = Step("build", NONE, NONE)
    /\ tag = TagAfter(NoTag, T.em)
    /\ net = NetAfter(NoNet, T.em)

Init ==
    /\ \E page \in Pages : InitPage(page)
    /\ probe = NoProbe
    /\ answer = NoAnswer
    /\ surface = NONE /\ mouse = NONE /\ motor = NONE

\* A statement of the script ran, leaving the state as T.
Ran(T) ==
    /\ Commit(T)
    /\ ops' = OpsAfter
    /\ UNCHANGED <<script, registered, inbox>>

\* parent.append(e), for an element that is elsewhere or detached.
appendChild(e, c) ==
    /\ ScriptMayRun
    /\ c \in script.put[e]
    /\ ContainerOf(Tree, e) # c
    /\ c.k = "shadow" => c.of \in hasShadow
    /\ ~IsAbove(Tree, e, c.of)
    /\ Ran(Appended(Cur, e, c))
    /\ last' = Step("appendChild", c.of, e)

\* e.remove()
removeChild(e) ==
    /\ ScriptMayRun
    /\ script.put[e] # {}
    /\ ContainerOf(Tree, e) # Nowhere
    /\ Ran(Removed(Cur, e))
    /\ last' = Step("removeChild", ContainerOf(Tree, e).of, e)

\* e.slot = name
setSlot(e, name) ==
    /\ ScriptMayRun
    /\ e \in script.reslot
    /\ slotAttr[e] # name
    /\ Ran(Reslotted(Cur, e, name))
    /\ last' = Step("setSlot", NONE, e)

\* host.attachShadow(options)
attachShadow(this) ==
    /\ ScriptMayRun
    /\ this \in script.hosts
    /\ this \notin hasShadow
    /\ Ran(hostAttachShadow(Cur, this))
    /\ last' = Step("attachShadow", this, NONE)

\* customElements.define registers the definition of e: e is upgraded if it
\* is connected, and the whenDefined promise is resolved, which queues its
\* reactions.
defineElement(e) ==
    /\ ScriptMayRun
    /\ e \notin registered
    /\ registered' = registered \cup {e}
    /\ LET ready == SelectSeq(waiting, LAMBDA cb : cb.c = e)
       IN Commit(Upgraded([Cur EXCEPT !.wait = SelectSeq(@, LAMBDA cb : cb.c # e),
                                      !.mq = @ \o [i \in 1..Len(ready) |-> Reaction(ready[i])]],
                          registered \cup {e}))
    /\ ops' = OpsAfter
    /\ last' = Step("define", NONE, e)
    /\ UNCHANGED <<script, inbox>>

\* ------------------------------------------------------------- deliveries

\* The child observer of p runs its callback on the records it holds.
deliverChildren(p) ==
    /\ ObserversMayRun
    /\ lrec[p] # <<>>
    /\ inbox' = NetCalls(lrec[p], p, "childConnected", "childDisconnected")
    /\ Commit([Cur EXCEPT !.lrec[p] = <<>>])
    /\ ops' = MaxOps
    /\ last' = Step("deliverChildren", p, NONE)
    /\ UNCHANGED <<script, registered>>

\* The shadow root observer of host p runs its callback on the records it holds.
deliverShadowChildren(p) ==
    /\ ObserversMayRun
    /\ srec[p] # <<>>
    /\ inbox' = NetCalls(srec[p], p, "shadowRootChildAdded", "shadowRootChildRemoved")
    /\ Commit([Cur EXCEPT !.srec[p] = <<>>])
    /\ ops' = MaxOps
    /\ last' = Step("deliverShadowChildren", p, NONE)
    /\ UNCHANGED <<script, registered>>

\* The listeners a slotchange event fired at target reaches, in order.
ListenerCalls(target) ==
    LET path == EventPath(Tree, target) IN
    Flatten([i \in 1..Len(path) |->
        [j \in 1..Len(lis[path[i]]) |-> Call("slotchange", lis[path[i]][j].this, path[i])]])

\* The first of the signal slots has its slotchange event fired.
fireSlotChange(s) ==
    /\ EventsMayFire
    /\ signaled # <<>>
    /\ s = Head(signaled)
    /\ inbox' = ListenerCalls(s)
    /\ Commit([Cur EXCEPT !.sig = Tail(@)])
    /\ ops' = MaxOps
    /\ last' = Step("fireSlotChange", NONE, s)
    /\ UNCHANGED <<script, registered>>

\* The batch after the handler at its head ran: an error raised in an
\* observer callback ends that callback; an event listener's does not stop
\* the other listeners.
InboxAfter(T) ==
    IF T.threw /\ Head(inbox).h # "slotchange" THEN <<>> ELSE Tail(inbox)

Handled(h, T) ==
    /\ inbox' = InboxAfter(T)
    /\ Commit(T)
    /\ last' = Step(h, Head(inbox).this, Head(inbox).child)
    /\ UNCHANGED <<script, registered, ops>>

runChildConnected ==
    /\ inbox # <<>>
    /\ Head(inbox).h = "childConnected"
    /\ Handled("childConnected", childConnectedCallback(Cur, Head(inbox).this, Head(inbox).child))

runChildDisconnected ==
    /\ inbox # <<>>
    /\ Head(inbox).h = "childDisconnected"
    /\ Handled("childDisconnected", childDisconnectedCallback(Cur, Head(inbox).this, Head(inbox).child))

runShadowRootChildAdded ==
    /\ inbox # <<>>
    /\ Head(inbox).h = "shadowRootChildAdded"
    /\ Handled("shadowRootChildAdded", shadowRootChildAdded(Cur, Head(inbox).this, Head(inbox).child))

runShadowRootChildRemoved ==
    /\ inbox # <<>>
    /\ Head(inbox).h = "shadowRootChildRemoved"
    /\ Handled("shadowRootChildRemoved", shadowRootChildRemoved(Cur, Head(inbox).this, Head(inbox).child))

runSlotChange ==
    /\ inbox # <<>>
    /\ Head(inbox).h = "slotchange"
    /\ Handled("slotchange", onChildSlotChange(Cur, Head(inbox).this, Head(inbox).child))

\* The defer()red call at the head of the microtask queue runs.
runDeferred ==
    /\ ContinuationsMayRun
    /\ Head(Due).k = "defer"
    /\ Commit(handleDistributedChildren([Cur EXCEPT !.mq = Tail(@)], Head(Due).this, Head(Due).child))
    /\ ops' = MaxOps
    /\ last' = Step("deferred", Head(Due).this, Head(Due).child)
    /\ UNCHANGED <<script, registered, inbox>>

\* The whenDefined reaction at the head of the microtask queue runs.
runWhenDefined ==
    /\ ContinuationsMayRun
    /\ Head(Due).k = "whenDefined"
    /\ Commit([Cur EXCEPT !.mq = Tail(@),
                          !.em = <<Cb("composed", Head(Due).this, Head(Due).child, Head(Due).t)>>])
    /\ last' = Step("whenDefined", Head(Due).this, Head(Due).child)
    /\ ops' = MaxOps
    /\ UNCHANGED <<script, registered, inbox>>

\* The value of a query as a list: a node, or nothing for null.
Maybe(e) == IF e = NONE THEN <<>> ELSE <<e>>

\* The world a getter called by the page script runs in: no microtask runs
\* during the call.
Reading == [Cur EXCEPT !.mq = micro]

\* The page script reads this._composedParent.
askComposedParent(this) ==
    /\ inbox = <<>>
    /\ this \in script.ask
    /\ IsTreeNode(this)
    /\ LET got == getComposedParent(Reading, this)
       IN /\ Committed(got.world)
          /\ answer' = Answer("parent", this, Maybe(got.val), 1)
    /\ last' = Step("composedParent", this, NONE)
    /\ UNCHANGED <<script, registered, inbox, ops>>

\* The page script reads this._composedChildren, once or twice in a row.
askComposedChildren(this) ==
    /\ inbox = <<>>
    /\ this \in script.ask
    /\ IsTreeNode(this)
    /\ ~(answer.q = "children" /\ answer.of = this /\ answer.nth = 2)
    /\ LET got == getComposedChildren(Reading, this)
       IN /\ Committed(got.world)
          /\ answer' = Answer("children", this, got.val,
                              IF answer.q = "children" /\ answer.of = this THEN 2 ELSE 1)
    /\ last' = Step("composedChildren", this, NONE)
    /\ UNCHANGED <<script, registered, inbox, ops>>

Next ==
    \/ \E e \in Elem : \E c \in script.put[e] : appendChild(e, c)
    \/ \E e \in Elem : removeChild(e)
    \/ \E e \in Elem : \E name \in SlotNames : setSlot(e, name)
    \/ \E e \in Elem : defineElement(e)
    \/ \E p \in TreeNodes : attachShadow(p)
    \/ \E p \in TreeNodes : deliverChildren(p)
    \/ \E p \in TreeNodes : deliverShadowChildren(p)
    \/ \E s \in Slots : fireSlotChange(s)
    \/ runChildConnected
    \/ runChildDisconnected
    \/ runShadowRootChildAdded
    \/ runShadowRootChildRemoved
    \/ runSlotChange
    \/ runDeferred
    \/ runWhenDefined
    \/ \E this \in TreeNodes : askComposedParent(this)
    \/ \E this \in TreeNodes : askComposedChildren(this)

Spec == Init /\ [][Next]_vars

\* ------------------------------------------------- the slot diff, alone

\* The duplicate-free lists of at most MaxLen elements.
Lists == UNION {{l \in [1..k -> Elem] : NoDup(l)} : k \in 0..MaxLen}

\* No page; the diff is about to be given two lists.
InitDiff ==
    /\ InitPage(Page(<<>>, Stays, {}, {}, {}, {}))
    /\ \E previous \in Lists : \E current \in Lists : probe = Probe(previous, current)
    /\ answer = NoAnswer
    /\ surface = NONE /\ mouse = NONE /\ motor = NONE

\* __getDistributedChildDifference computes the diff of the two lists.
runDiff ==
    /\ ~probe.done
    /\ LET diff == DiffLoop(probe.previous, 1, probe.current, <<>>)
       IN probe' = [probe EXCEPT !.done = TRUE, !.added = diff.added, !.removed = diff.removed]
    /\ UNCHANGED <<script, dom, queues, tracker, ghost, answer, surface, mouse, motor>>

NextDiff == runDiff

SpecDiff == InitDiff /\ [][NextDiff]_vars

\* ------------------------------------------------- Surface (core/Surface.js)

\* The class names, style properties and attributes the calls range over.
ClassNames == {"a", "famous-surface"}
StyleKeys == {"color"}
AttrKeys == {"id"}

\* The lists handed to setClasses: at most MaxLen names, repeats allowed.
ClassLists == UNION {[1..k -> ClassNames] : k \in 0..MaxLen}

\* The dictionaries handed to setProperties and to setAttributes; an
\* attribute may be given with the value undefined or null.
StyleArgs == SUBSET StyleKeys
AttrArgs == UNION {[keys -> {"a", "undefined", "null"}] : keys \in SUBSET AttrKeys}

\* The options handed to setOptions: a list of classes or none, every
\* style property or none, and the attribute with a value, with undefined or
\* not at all.
OptionArgs ==
    [classes : {<<>>} \cup {<<L>> : L \in {C \in ClassLists : Len(C) <= MaxOptions}},
     properties : {<<>>, <<StyleKeys>>},
     attributes : {<<>>} \cup {<<A>> : A \in [AttrKeys -> {"a", "undefined"}]}]

\* An element the allocator hands out: no class, no style, no attribute.
FreshElement == [classList |-> {}, style |-> {}, attrs |-> {}]

\* new Surface(): the fields of the constructor; call is the last call made.
NewSurface ==
    [classList |-> <<>>, dirtyClasses |-> <<>>, properties |-> {}, attributes |-> {},
     classesDirty |-> TRUE, stylesDirty |-> TRUE, attributesDirty |-> TRUE,
     currentTarget |-> FALSE, target |-> FreshElement, call |-> [op |-> "new", arg |-> NONE]]

addClass(S, className) ==
    IF IndexOf(S.classList, className) = 0
    THEN [S EXCEPT !.classList = Append(@, className), !.classesDirty = TRUE]
    ELSE S

removeClass(S, className) ==
    LET i == IndexOf(S.classList, className) IN
    IF i > 0
    THEN [S EXCEPT !.dirtyClasses = Append(@, S.classList[i]),
                   !.classList = DropAt(@, i),
                   !.classesDirty = TRUE]
    ELSE S

toggleClass(S, className) ==
    IF IndexOf(S.classList, className) = 0 THEN addClass(S, className) ELSE removeClass(S, className)

\* The two loops of setClasses: removeClass over removal, addClass over classList.
RECURSIVE setClassesLoop(_, _, _, _)
setClassesLoop(S, names, i, adding) ==
    IF i > Len(names) THEN S
    ELSE setClassesLoop(IF adding THEN addClass(S, names[i]) ELSE removeClass(S, names[i]),
                        names, i + 1, adding)

\* setClasses that appends every name of the list without addClass's test.
setClassesAppending(S, classList) ==
    LET removal == SelectSeq(S.classList, LAMBDA c : IndexOf(classList, c) = 0)
        S1 == setClassesLoop(S, removal, 1, FALSE)
    IN [S1 EXCEPT !.classList = @ \o classList, !.classesDirty = TRUE]

setClasses(S, classList) ==
    LET removal == SelectSeq(S.classList, LAMBDA c : IndexOf(classList, c) = 0)
    IN setClassesLoop(setClassesLoop(S, removal, 1, FALSE), classList, 1, TRUE)

setProperties(S, properties) ==
    [S EXCEPT !.properties = @ \cup properties, !.stylesDirty = TRUE]

\* The loop stores a key only when its value != undefined, which null fails
\* as well; attributes holds the keys stored.
setAttributes(S, attributes) ==
    [S EXCEPT !.attributes = @ \cup {key \in DOMAIN attributes : attributes[key] \notin {"undefined", "null"}},
              !.attributesDirty = TRUE]

\* setOptions(options): each setter runs when its option is given (an array
\* or an object is truthy, even when empty); an option is held as a list of
\* none or one value. The size and the content are not part of S.
setOptions(S, options) ==
    LET S1 == IF options.classes # <<>> THEN setClasses(S, options.classes[1]) ELSE S
        S2 == IF options.properties # <<>> THEN setProperties(S1, options.properties[1]) ELSE S1
    IN IF options.attributes # <<>> THEN setAttributes(S2, options.attributes[1]) ELSE S2

\* setup(allocator): allocate an element, add the element class, attach.
setup(S) ==
    [addClass(S, "famous-surface") EXCEPT !.target = FreshElement, !.currentTarget = TRUE,
                                          !.classesDirty = TRUE, !.stylesDirty = TRUE,
                                          !.attributesDirty = TRUE]

\* commit(spec, allocator): _cleanupClasses and _applyClasses, _applyStyles,
\* _applyAttributes, each under its dirty flag.
commit(S) ==
    LET S0 == IF S.currentTarget THEN S ELSE setup(S)
        S1 == IF S0.classesDirty
              THEN [S0 EXCEPT !.target.classList = (@ \ Range(S0.dirtyClasses)) \cup Range(S0.classList),
                              !.dirtyClasses = <<>>,
                              !.classesDirty = FALSE]
              ELSE S0
        S2 == IF S1.stylesDirty
              THEN [S1 EXCEPT !.target.style = @ \cup S1.properties, !.stylesDirty = FALSE]
              ELSE S1
    IN IF S2.attributesDirty
       THEN [S2 EXCEPT !.target.attrs = @ \cup S2.attributes, !.attributesDirty = FALSE]
       ELSE S2

\* cleanup(allocator): _cleanupStyles, _cleanupAttributes, _cleanupClasses,
\* detach; target stays in the record as the element handed back.
cleanup(S) ==
    [S EXCEPT !.target.style = @ \ S.properties,
              !.target.attrs = @ \ S.attributes,
              !.target.classList = @ \ Range(S.dirtyClasses),
              !.dirtyClasses = <<>>,
              !.currentTarget = FALSE]

\* A Surface has been constructed, without options or with options that the
\* constructor hands to setOptions; no page.
InitSurface ==
    /\ InitPage(Page(<<>>, Stays, {}, {}, {}, {}))
    /\ probe = NoProbe
    /\ answer = NoAnswer
    /\ \/ surface = NewSurface
       \/ \E O \in OptionArgs :
              surface = [setOptions(NewSurface, O) EXCEPT !.call = [op |-> "new", arg |-> O]]
    /\ mouse = NONE /\ motor = NONE

\* One call on the Surface, leaving it as S; removed classes wait for the
\* next commit, at most MaxDirty of them.
Called(S, op, arg) ==
    /\ Len(S.dirtyClasses) <= MaxDirty
    /\ surface' = [S EXCEPT !.call = [op |-> op, arg |-> arg]]
    /\ UNCHANGED <<script, dom, queues, tracker, ghost, answer, probe, mouse, motor>>

NextSurface ==
    \/ \E c \in ClassNames : Called(addClass(surface, c), "addClass", c)
    \/ \E c \in ClassNames : Called(removeClass(surface, c), "removeClass", c)
    \/ \E c \in ClassNames : Called(toggleClass(surface, c), "toggleClass", c)
    \/ \E L \in ClassLists : Called(setClasses(surface, L), "setClasses", L)
    \/ \E P \in StyleArgs : Called(setProperties(surface, P), "setProperties", NONE)
    \/ \E A \in AttrArgs : Called(setAttributes(surface, A), "setAttributes", NONE)
    \/ \E O \in OptionArgs : Called(setOptions(surface, O), "setOptions", O)
    \/ Called(commit(surface), "commit", NONE)
    \/ surface.currentTarget /\ Called(cleanup(surface), "cleanup", NONE)

SpecSurface == InitSurface /\ [][NextSurface]_vars

\* ------------------------------------ MouseInput (samsara/inputs/MouseInput.js)

\* The clientX positions of the mouse events.
Coords == {0, 1, 2}

\* Most mousemove listeners that _eventInput holds at once.
MaxListeners == 2

\* new MouseInput(): _down, _prevCoord and _value (x components; <<>> for
\* undefined and null); up tells whether _eventInput holds the mouseup
\* listener, move how many times it holds boundMove (on appends, off(type)
\* removes them all). docMove tells whether document holds boundMove (one
\* function, which addEventListener adds once), docUp how many of the
\* functions that handleLeave created document holds, and boundUpOn whether
\* the one this.boundUp refers to is among them. inside, pressed: the pointer
\* is over the target, the button is held. started: a mousedown reached the
\* target and no mouseup has happened since; open: 'start' was emitted and no
\* 'end' since; em: what the last event emitted.
NewMouse ==
    [down |-> FALSE, prevCoord |-> <<>>, value |-> <<>>, up |-> TRUE, move |-> 0,
     docUp |-> 0, boundUpOn |-> FALSE, docMove |-> FALSE, inside |-> TRUE, pressed |-> FALSE,
     started |-> FALSE, open |-> FALSE, em |-> <<>>, threw |-> FALSE, event |-> "new"]

\* this.emit(type, payload)
emit(M, type) ==
    [M EXCEPT !.em = Append(@, type),
              !.open = IF type = "start" THEN TRUE ELSE IF type = "end" THEN FALSE ELSE @]

handleStart(M, x) ==
    emit([M EXCEPT !.move = @ + 1, !.prevCoord = <<x>>, !.value = <<0>>, !.down = TRUE], "start")

\* handleMove reads prevCoord[0]: a TypeError when _prevCoord is undefined.
handleMove(M, x) ==
    IF M.prevCoord = <<>> THEN [M EXCEPT !.threw = TRUE]
    ELSE [emit(M, "update") EXCEPT !.value = <<M.value[1] + (x - M.prevCoord[1])>>, !.prevCoord = <<x>>]

handleEnd(M) ==
    [emit([M EXCEPT !.move = 0], "end") EXCEPT !.prevCoord = <<>>, !.down = FALSE]

\* document.removeEventListener('mouseup', this.boundUp): only the function
\* this.boundUp refers to is removed.
removeBoundUp(M) ==
    IF M.boundUpOn THEN [M EXCEPT !.docUp = @ - 1, !.boundUpOn = FALSE] ELSE M

handleEnter(M) ==
    IF ~M.down THEN M
    ELSE removeBoundUp([M EXCEPT !.move = 0, !.up = FALSE, !.docMove = FALSE])

\* this.boundUp becomes a new function, which document then holds next to
\* those of earlier calls that were not removed.
handleLeave(M) ==
    IF ~M.down THEN M
    ELSE [M EXCEPT !.move = 0, !.up = FALSE, !.docMove = TRUE,
                   !.docUp = @ + 1, !.boundUpOn = TRUE]

\* A function that handleLeave created, called by document.
boundUp(M) == removeBoundUp([handleEnd(M) EXCEPT !.docMove = FALSE])

\* The n listeners of mousemove that _eventInput holds run in turn, until
\* one raises.
RECURSIVE moveListeners(_, _, _)
moveListeners(M, n, x) ==
    IF n = 0 \/ M.threw THEN M ELSE moveListeners(handleMove(M, x), n - 1, x)

\* The functions of handleLeave that document holds run in turn, the older
\* ones first and the one this.boundUp refers to last, unless an older one
\* has removed it.
RECURSIVE olderBoundUps(_, _)
olderBoundUps(M, n) == IF n = 0 THEN M ELSE olderBoundUps(boundUp(M), n - 1)

documentMouseup(M) ==
    LET M1 == olderBoundUps(M, M.docUp - (IF M.boundUpOn THEN 1 ELSE 0))
    IN IF M1.boundUpOn THEN boundUp(M1) ELSE M1

\* A MouseInput has been constructed; the pointer is over its target.
InitMouse ==
    /\ InitPage(Page(<<>>, Stays, {}, {}, {}, {}))
    /\ probe = NoProbe
    /\ answer = NoAnswer
    /\ mouse = NewMouse
    /\ surface = NONE /\ motor = NONE

\* The browser dispatched one mouse event, leaving the MouseInput as M.
Dispatched(M, event) ==
    /\ mouse' = [M EXCEPT !.event = event]
    /\ UNCHANGED <<script, dom, queues, tracker, ghost, answer, probe, surface, motor>>

\* The event reaches the target's listeners when the pointer is over the
\* target, and then (it bubbles) the listeners on document.
mousedown(x) ==
    /\ ~mouse.pressed
    /\ mouse.move < MaxListeners
    /\ LET M == [mouse EXCEPT !.em = <<>>, !.pressed = TRUE, !.started = mouse.inside]
       IN Dispatched(IF mouse.inside THEN handleStart(M, x) ELSE M, "mousedown")

mousemove(x) ==
    /\ x \in Coords
    /\ LET M == [mouse EXCEPT !.em = <<>>]
           M1 == IF M.inside THEN moveListeners(M, M.move, x) ELSE M
       IN Dispatched(IF M1.docMove /\ ~M1.threw THEN handleMove(M1, x) ELSE M1, "mousemove")

mouseup ==
    /\ mouse.pressed
    /\ LET M == [mouse EXCEPT !.em = <<>>, !.pressed = FALSE, !.started = FALSE]
           M1 == IF M.inside /\ M.up THEN handleEnd(M) ELSE M
       IN Dispatched(documentMouseup(M1), "mouseup")

mouseenter ==
    /\ ~mouse.inside
    /\ Dispatched(handleEnter([mouse EXCEPT !.em = <<>>, !.inside = TRUE]), "mouseenter")

mouseleave ==
    /\ mouse.inside
    /\ Dispatched(handleLeave([mouse EXCEPT !.em = <<>>, !.inside = FALSE]), "mouseleave")

NextMouse ==
    \/ \E x \in Coords : mousedown(x)
    \/ \E x \in Coords : mousemove(x)
    \/ mouseup
    \/ mouseenter
    \/ mouseleave

SpecMouse == InitMouse /\ [][NextMouse]_vars

\* ------------------------------------------------- Motor (unnamed/part_004)

\* The update functions handed to the Motor.
Fns == {"f", "g", "h"}

\* new Motor(): the empty updateQueue; call is the last method call.
NewMotor == [updateQueue |-> <<>>, call |-> [op |-> "new", fn |-> NONE]]

\* Array.prototype.indexOf, zero-based: -1 when fn is not in the array.
queueIndexOf(queue, fn) ==
    IF \E i \in 1..Len(queue) : queue[i] = fn
    THEN (CHOOSE i \in 1..Len(queue) :
              queue[i] = fn /\ \A j \in 1..(i - 1) : queue[j] # fn) - 1
    ELSE -1

\* Array.prototype.splice(start, 1): a negative start counts from the end of
\* the array (and is clamped to 0), a start past the end removes nothing.
spliceOne(queue, start) ==
    LET n == Len(queue)
        from == IF start < 0 THEN (IF n + start < 0 THEN 0 ELSE n + start)
                ELSE (IF start > n THEN n ELSE start)
    IN [i \in 1..(IF from < n THEN n - 1 ELSE n) |->
            IF i <= from THEN queue[i] ELSE queue[i + 1]]

addToQueue(M, fn) == [M EXCEPT !.updateQueue = Append(@, fn)]

removeFromQueue(M, fn) ==
    [M EXCEPT !.updateQueue = spliceOne(@, queueIndexOf(@, fn))]

\* The singleton Motor has been constructed.
InitMotor ==
    /\ InitPage(Page(<<>>, Stays, {}, {}, {}, {}))
    /\ probe = NoProbe
    /\ answer = NoAnswer
    /\ motor = NewMotor
    /\ surface = NONE /\ mouse = NONE

\* One method of the Motor was called, leaving it as M.
MotorCalled(M, op, fn) ==
    /\ motor' = [M EXCEPT !.call = [op |-> op, fn |-> fn]]
    /\ UNCHANGED <<script, dom, queues, tracker, ghost, answer, probe, surface, mouse>>

Motor_addToQueue(fn) ==
    /\ Len(motor.updateQueue) < MaxQueue
    /\ MotorCalled(addToQueue(motor, fn), "addToQueue", fn)

Motor_removeFromQueue(fn) ==
    /\ fn \in Fns
    /\ MotorCalled(removeFromQueue(motor, fn), "removeFromQueue", fn)

NextMotor ==
    \/ \E fn \in Fns : Motor_addToQueue(fn)
    \/ \E fn \in Fns : Motor_removeFromQueue(fn)

SpecMotor == InitMotor /\ [][NextMotor]_vars

\* -------------------------------------------------------------- properties

\* X is a member of B's __distributedChildren.
InSet(B, X) == dc[B].def /\ Has(dc[B].items, X)

\* C1: in every reachable state, a node is in a tracker's distributed-children
\* set exactly when its distributed-parent pointer is that tracker.
C1_Bidirectional ==
    \A B \in TreeNodes : \A X \in TreeNodes : InSet(B, X) <=> dp[X] = B


\* C2: the diff's removed list is exactly the previous nodes absent from the
\* new list, and its added list exactly the new nodes absent from the
\* previous list; [A, B, C] against [B, C, D] gives removed [A], added [D].
C2_DiffExact ==
    probe.done =>
        /\ Range(probe.removed) = Range(probe.previous) \ Range(probe.current)
        /\ Range(probe.added) = Range(probe.current) \ Range(probe.previous)

\* The tracker that handles slot S: the host whose shadow root holds S
\* directly, else the parent of S.
TrackerOf(S) == IF HostOf(Tree, S) # NONE THEN HostOf(Tree, S) ELSE ParentOf(Tree, S)

\* X is among the nodes tracker P resolves for slot S.
ResolvedTo(P, S, X) == P \in TreeNodes /\ Has(ResolveNewNodes(P, S), X)

\* C3: when the assignment of X has moved to a slot tracked by P2 and every
\* handler has run, in whichever order, P2 holds the one active 'slot'
\* relationship with X, X is in P2's set with its pointer at P2, and at no
\* moment is X in the sets of two trackers.
C3_Reslot ==
    \A X \in TreeNodes :
        /\ \A P1 \in TreeNodes : \A P2 \in TreeNodes \ {P1} : ~(InSet(P1, X) /\ InSet(P2, X))
        /\ \A S2 \in Slots :
            (Quiescent /\ ResolvedTo(TrackerOf(S2), S2, X)) =>
                LET P2 == TrackerOf(S2) IN
                /\ InSet(P2, X)
                /\ dp[X] = P2
                /\ tag[P2][X] = "slot"
                /\ \A P1 \in TreeNodes \ {P2} : tag[P1][X] # "slot"

\* C4: for every node, the composed callbacks delivered about it minus the
\* uncomposed ones, summed over all parents, is 0 or 1.
C4_NetBalance == \A X \in TreeNodes : net[X] \in {0, 1}

\* C5: no node has its distributed-parent pointer and its shadow-root-parent
\* pointer both set.
C5_Exclusive == \A X \in TreeNodes : ~(dp[X] # NONE /\ srp[X] # NONE)

\* C6: a node is in the distributed-children set of at most one tracker.
C6_OneSet ==
    \A X \in TreeNodes : \A B1 \in TreeNodes : \A B2 \in TreeNodes :
        (InSet(B1, X) /\ InSet(B2, X)) => B1 = B2

\* The step just taken ran the slot-distribution handling of tracker P on slot S.
Handles(P, S) ==
    /\ last'.op \in {"slotchange", "deferred", "shadowRootChildAdded"}
    /\ last'.this = P
    /\ last'.child = S

\* C7: slot-distribution handling run on a slot whose assigned elements are
\* what the previous run recorded delivers no callback and leaves the
\* snapshot and the tracker's fields as they were.
C7_Idempotent ==
    [][\A P \in TreeNodes : \A S \in Slots :
        (Handles(P, S) /\ prev[P][S] = Some(ResolveNewNodes(P, S))) =>
            (emitted' = <<>> /\ prev' = prev /\ dc' = dc /\ dp' = dp)]_vars

\* C8: no handler raises an error.
C8_NoError == ~threw

\* The pending net weight of child c in the records an observer holds.
PendingWeight(recs, c) ==
    SumOver([i \in 1..Len(recs) |-> IF recs[i].n = c THEN recs[i].w ELSE 0], 1..Len(recs))

\* As far as parent p has been notified, the relationship of callback cb holds.
StillComposed(cb) ==
    CASE cb.t = "actual" -> (IF Has(lightKids[cb.p], cb.c) THEN 1 ELSE 0) - PendingWeight(lrec[cb.p], cb.c) = 1
      [] cb.t = "root" -> srp[cb.c] = cb.p
      [] OTHER -> dp[cb.c] = cb.p

\* C9: a composed callback deferred until the child's definition resolves is
\* not delivered when the child has been removed meanwhile.
C9_NoStaleComposed ==
    [][last'.op = "whenDefined" => \A i \in 1..Len(emitted') : StillComposed(emitted'[i])]_vars

\* The callbacks of em, delivered in order onto the tags tg, alternate for
\* every pair: composed when no relationship is active, uncomposed with the
\* tag of the active one.
RECURSIVE Alternates(_, _)
Alternates(tg, em) ==
    IF em = <<>> THEN TRUE
    ELSE LET cb == Head(em) IN
         /\ IF cb.k = "composed" THEN tg[cb.p][cb.c] = NONE ELSE tg[cb.p][cb.c] = cb.t
         /\ Alternates(TagAfter(tg, <<cb>>), Tail(em))

\* C10: for every parent and child, the delivered callbacks alternate strictly,
\* starting with composed, and each uncomposed carries the tag of the
\* composed before it.
C10_Alternation == [][Alternates(tag, emitted')]_vars

\* C11: every callback, composed or uncomposed, is delivered only while its
\* child is a defined (upgraded) element.
C11_BothWhenDefined == \A i \in 1..Len(emitted) : emitted[i].c \in defined

\* C12: once every event is handled, a defined light child X of a non-scene
\* container C that is assigned to a top-level slot S of C's shadow root has
\* composed parent C, and the last callback C received about X is
\* childComposedCallback(X, 'slot'); and a detached X has a null
\* distributed-parent pointer, a null composed parent, and is in a 'slot'
\* relationship with no container.
C12_SlottedScenario ==
    \A X \in Instances \ Scenes :
        (Quiescent /\ ~threw /\ X \in defined) =>
            /\ \A C \in TreeNodes \ Scenes : \A S \in Slots :
                (C \in shadowRoot /\ HostOf(Tree, S) = C /\ ParentOf(Tree, X) = C
                    /\ assignedSlot(Tree, X) = S) =>
                    (composedParent(X) = C /\ tag[C][X] = "slot")
            /\ ContainerOf(Tree, X) = Nowhere =>
                /\ dp[X] = NONE
                /\ composedParent(X) = NONE
                /\ \A C \in TreeNodes : tag[C][X] # "slot"

\* Z is a tracker that owns no shadow root.
Plain(Z) == Z \in TreeNodes /\ Z \notin hasShadow /\ Z \notin shadowRoot

\* What the handling of the attachment of Y under Z, and then the arrival of
\* Y's definition, deliver: exactly childComposedCallback(Y, 'actual') to Z at
\* once when Y is defined; otherwise nothing, that one callback waiting for
\* Y's definition, whose reaction then delivers exactly it.
OneActualCallback(Y, Z) ==
    /\ (last'.op = "childConnected" /\ last'.this = Z /\ last'.child = Y /\ Plain(Z)) =>
        IF Y \in defined
        THEN emitted' = <<Cb("composed", Z, Y, "actual")>> /\ waiting' = waiting /\ micro' = Due
        ELSE /\ emitted' = <<>>
             /\ IF Y \in registered
                THEN /\ waiting' = waiting
                     /\ micro' = Append(Due, Reaction(Cb("composed", Z, Y, "actual")))
                ELSE /\ waiting' = Append(waiting, Cb("composed", Z, Y, "actual"))
                     /\ micro' = Due
    /\ (last'.op = "define" /\ last'.child = Y) =>
        /\ emitted' = <<>>
        /\ \A i \in 1..Len(waiting') : waiting'[i].c # Y
        /\ LET ready == SelectSeq(waiting, LAMBDA cb : cb.c = Y)
           IN micro' = Due \o [i \in 1..Len(ready) |-> Reaction(ready[i])]
    /\ (last'.op = "whenDefined" /\ last'.this = Z /\ last'.child = Y) =>
        /\ Y \in registered
        /\ Head(Due) = Reaction(Cb("composed", Z, Y, Head(Due).t))
        /\ emitted' = <<Cb("composed", Z, Y, Head(Due).t)>>
        /\ micro' = Tail(Due)
        /\ waiting' = waiting

\* C13 (as the spec states it): in every state a node Y whose structural
\* parent Z owns no shadow root has composed parent Z, and the handling of
\* the attachment of any TreeNode Y under Z delivers exactly
\* childComposedCallback(Y, 'actual') to Z, at once when Y is defined and
\* otherwise once Y's definition has arrived.
C13_ActualAlways ==
    /\ [](\A Y \in Instances : \A Z \in TreeNodes :
            (Plain(Z) /\ ParentOf(Tree, Y) = Z) => composedParent(Y) = Z)
    /\ [][\A Y \in TreeNodes : \A Z \in TreeNodes : OneActualCallback(Y, Z)]_vars

\* C13 (amended): a node Y whose structural parent Z owns no shadow root has
\* composed parent Z in every state where Y holds neither a distributed-parent
\* nor a shadow-root-parent pointer; the handling of the attachment of a Node
\* Y under Z delivers exactly childComposedCallback(Y, 'actual') to Z, at once
\* when Y is defined and otherwise once Y's definition has arrived; and the
\* handling of the attachment of a scene under Z delivers nothing and leaves
\* nothing waiting.
C13_ActualScenario ==
    /\ [](\A Y \in Instances : \A Z \in TreeNodes :
            (Plain(Z) /\ ParentOf(Tree, Y) = Z /\ dp[Y] = NONE /\ srp[Y] = NONE) =>
                composedParent(Y) = Z)
    /\ [][\A Y \in TreeNodes : \A Z \in TreeNodes :
            IF isNode(Y) THEN OneActualCallback(Y, Z)
            ELSE (last'.op = "childConnected" /\ last'.this = Z /\ last'.child = Y /\ Plain(Z)) =>
                    (emitted' = <<>> /\ waiting' = waiting /\ micro' = Due)]_vars

\* A defined y was attached under x, which owns no shadow root: x has just
\* received the 'actual' callback, and y, which holds no pointer, has x as
\* composed parent.
C13_Witness ==
    /\ last = Step("childConnected", "x", "y")
    /\ ParentOf(Tree, "y") = "x"
    /\ "y" \in defined
    /\ emitted = <<Cb("composed", "x", "y", "actual")>>
    /\ dp["y"] = NONE /\ srp["y"] = NONE
    /\ composedParent("y") = "x"

\* C14: a node D that is a child of a slot and has neither a distributed
\* parent nor a shadow-root parent has the slot's structural parent context
\* as composed parent while the slot has no assigned element, and a null
\* composed parent while the slot has an assigned element.
C14_DefaultContent ==
    \A D \in Instances : \A S \in Slots :
        (ParentOf(Tree, D) = S /\ dp[D] = NONE /\ srp[D] = NONE) =>
            composedParent(D) = IF assignedNodes(Tree, S) = <<>> THEN SlotParent(Tree, S) ELSE NONE

\* N's parent element is a scene.
UnderScene(N) == ParentOf(Tree, N) \in Scenes

\* C15 (as the spec states it): the composed parent of N is N's distributed
\* parent whenever that pointer is set, and otherwise N's shadow-root parent
\* whenever that pointer is set, wherever N is in the tree.
C15_PointersFirst ==
    \A N \in Instances :
        /\ dp[N] # NONE => composedParent(N) = dp[N]
        /\ (dp[N] = NONE /\ srp[N] # NONE) => composedParent(N) = srp[N]

\* C15 (amended): the composed parent of a child of a scene is that scene;
\* for every other N it is N's distributed parent whenever that pointer is
\* set, and otherwise N's shadow-root parent whenever that pointer is set;
\* and what a read of the composed parent returns is that value.
C15_SceneThenPointers ==
    /\ \A N \in Instances :
        /\ UnderScene(N) => composedParent(N) = ParentOf(Tree, N)
        /\ (~UnderScene(N) /\ dp[N] # NONE) => composedParent(N) = dp[N]
        /\ (~UnderScene(N) /\ dp[N] = NONE /\ srp[N] # NONE) => composedParent(N) = srp[N]
    /\ answer.q = "parent" =>
        LET N == answer.of IN
        /\ (~UnderScene(N) /\ dp[N] # NONE) => answer.val = <<dp[N]>>
        /\ (~UnderScene(N) /\ dp[N] = NONE /\ srp[N] # NONE) => answer.val = <<srp[N]>>

\* The composed parent of x was read while x is a child of the scene and
\* still has the shadow-root parent h.
C15_Witness ==
    /\ answer = Answer("parent", "x", <<"sc">>, 1)
    /\ UnderScene("x")
    /\ srp["x"] = "h"

\* N's parent element owns a shadow root.
UnderHost(N) == ParentOf(Tree, N) # NONE /\ hasShadowOf(Tree, ParentOf(Tree, N))

\* C16 (as the spec states it): a node whose structural parent owns a shadow
\* root and whose distributed-parent pointer is unset has a null composed
\* parent, also when it is already assigned to a slot.
C16_NullUntilHandled ==
    \A N \in Instances : (UnderHost(N) /\ dp[N] = NONE) => composedParent(N) = NONE

\* C16 (amended): a node whose structural parent is a non-scene owner of a
\* shadow root and that has neither pointer set has a null composed parent
\* exactly while it has no assigned slot; once it is assigned to a slot its
\* composed parent is the slot's host (or the slot's parent element), whether
\* or not the slot-change handler has run; a read returns that value.
C16_NullUnlessAssigned ==
    \A N \in Instances :
        (UnderHost(N) /\ ~UnderScene(N) /\ dp[N] = NONE /\ srp[N] = NONE) =>
            LET slot == assignedSlot(Tree, N)
                value == IF slot = NONE THEN NONE ELSE SlotParent(Tree, slot)
            IN /\ composedParent(N) = value
               /\ (answer.q = "parent" /\ answer.of = N) => answer.val = Maybe(value)

\* Every event is handled; y is a child of host h, assigned to s1, its
\* distributed-parent pointer is unset, and a read of its composed parent
\* returned h.
C16_Witness ==
    /\ Quiescent
    /\ UnderHost("y") /\ dp["y"] = NONE /\ srp["y"] = NONE
    /\ assignedSlot(Tree, "y") = "s1"
    /\ answer = Answer("parent", "y", <<"h">>, 1)

\* The top-level slots of N's shadow root, in tree order.
TopSlots(N) == SelectSeq(shadowKids[N], IsSlot)

\* The nodes distributed to the top-level slots of N's shadow root.
DistributedTo(N) ==
    Flatten([i \in 1..Len(TopSlots(N)) |-> SelectSeq(assignedElementsFlat(Tree, TopSlots(N)[i]), isNode)])

\* C17: the composed children of a non-scene N that owns a shadow root are
\* the nodes distributed to the top-level slots of the shadow root followed
\* by the TreeNodes that are direct children of the shadow root; those of
\* every other N are the members of N's distributed-children set followed by
\* N's children that are TreeNodes; a read returns that list.
C17_ComposedChildren ==
    LET value(N) ==
            IF N \in hasShadow /\ N \notin Scenes
            THEN DistributedTo(N) \o SelectSeq(shadowKids[N], IsTreeNode)
            ELSE dc[N].items \o SelectSeq(lightKids[N], IsTreeNode)
    IN /\ \A N \in Instances : composedChildren(N) = value(N)
       /\ answer.q = "children" => answer.val = value(answer.of)

\* The composed children of host h were read while n and x are distributed to
\* its slot and y is a direct child of its shadow root.
C17_Witness ==
    /\ answer.q = "children" /\ answer.of = "h"
    /\ answer.val = <<"n", "x", "y">>
    /\ HostOf(Tree, "y") = "h"
    /\ ParentOf(Tree, "n") = "h"

\* C18: the world a read of the composed parent or of the composed children
\* leaves has every pointer, distributed-children set, slot snapshot,
\* pending-distribution flag, listener, queue and part of the tree as it
\* found them, and the read delivers no callback; and the second of two
\* consecutive reads of the composed children of a node, which runs in the
\* world the first left, returns the list the first returned.
C18_PureReads ==
    [][answer'.q # NONE =>
        /\ dp' = dp /\ srp' = srp /\ dc' = dc /\ prev' = prev /\ ipd' = ipd
        /\ shadowRoot' = shadowRoot /\ lis' = lis /\ threw' = threw
        /\ UNCHANGED <<dom, queues>>
        /\ emitted' = <<>> /\ tag' = tag /\ net' = net
        /\ answer'.nth = 2 => (answer.q = "children" /\ answer.of = answer'.of /\ answer'.val = answer.val)]_vars

\* The composed children of a tracker that has a distributed-children set
\* were read twice in a row, and the reads returned two nodes or more.
C18_Witness ==
    /\ answer.q = "children" /\ answer.nth = 2
    /\ Len(answer.val) >= 2
    /\ dc[answer.of].def

\* The 'slot' uncomposed callbacks P delivers for the TreeNodes of a list.
UncomposedFor(P, nodes) ==
    LET ns == SelectSeq(nodes, IsTreeNode)
    IN [i \in 1..Len(ns) |-> Cb("uncomposed", P, ns[i], "slot")]

\* a is an initial part of b.
IsPrefix(a, b) == Len(a) <= Len(b) /\ \A i \in 1..Len(a) : a[i] = b[i]

\* C19: when a non-scene tracker P handles a slot S that is itself assigned
\* to another slot, the list it records for S is empty, it delivers no
\* composed callback, and it delivers the 'slot' uncomposed callbacks of the
\* nodes it had recorded for S, in order: all of them when they all are in
\* its distributed-children set, and otherwise those before the removal that
\* raises; when a scene
\* handles S, the list it records is the flattened assigned elements of S,
\* whether or not S is assigned to another slot.
C19_Reslotted ==
    [][\A P \in TreeNodes : \A S \in Slots :
        Handles(P, S) =>
            IF P \in Scenes
            THEN prev'[P][S] = Some(assignedElementsFlat(Tree, S))
            ELSE assignedSlot(Tree, S) # NONE =>
                    /\ prev'[P][S] = Some(<<>>)
                    /\ IsPrefix(emitted', UncomposedFor(P, prev[P][S].items))
                    /\ (\A c \in Range(prev[P][S].items) : InSet(P, c)) =>
                            emitted' = UncomposedFor(P, prev[P][S].items)]_vars

\* The non-scene tracker n has just handled s1, which is assigned to s2 and
\* has x among its flattened assigned elements, and has reported x removed.
C19_Witness ==
    /\ last.this = "n" /\ last.child = "s1"
    /\ last.op \in {"slotchange", "deferred"}
    /\ assignedSlot(Tree, "s1") = "s2"
    /\ Has(assignedElementsFlat(Tree, "s1"), "x")
    /\ emitted = <<Cb("uncomposed", "n", "x", "slot")>>
    /\ prev["n"]["s1"] = Some(<<>>)

\* The 'slot' composed callbacks P delivers at once for the TreeNodes of a
\* list: those of the defined ones.
ComposedFor(P, nodes) ==
    LET ns == SelectSeq(nodes, LAMBDA c : IsTreeNode(c) /\ c \in defined)
    IN [i \in 1..Len(ns) |-> Cb("composed", P, ns[i], "slot")]

\* C20: when tracker P handles a slot S for which it has no recorded
\* snapshot, every element it resolves for S is treated as added (P delivers
\* the 'slot' composed callback for each defined TreeNode among them, in
\* order, and becomes the distributed parent of every TreeNode among them),
\* nothing is treated as removed (no uncomposed callback), the resolved list
\* is recorded, and no error is raised.
C20_FirstDiff ==
    [][\A P \in TreeNodes : \A S \in Slots :
        (Handles(P, S) /\ ~prev[P][S].def) =>
            /\ emitted' = ComposedFor(P, ResolveNewNodes(P, S))
            /\ \A c \in Range(ResolveNewNodes(P, S)) \cap TreeNodes : dp'[c] = P /\ Has(dc'[P].items, c)
            /\ prev'[P][S] = Some(ResolveNewNodes(P, S))
            /\ threw' = threw]_vars

\* On page ThreeSlotted, host h has just handled its slot s1 for the first
\* time, with n and x assigned to it, and has reported both added.
C20_Witness ==
    /\ script = ThreeSlotted
    /\ last = Step("shadowRootChildAdded", "h", "s1")
    /\ emitted = <<Cb("composed", "h", "n", "slot"), Cb("composed", "h", "x", "slot")>>
    /\ prev["h"]["s1"] = Some(<<"n", "x">>)
    /\ ~threw

\* C21 (as the spec states it): a step changes the distributed-children set
\* of a tracker only when it is a handler running on that tracker.
C21_OwnSetOnly ==
    [][\A B \in TreeNodes : dc'[B] # dc[B] => last'.this = B]_vars

\* C21 (amended): a handler running on tracker A never adds a node to the
\* distributed-children set of another tracker B; it changes B's set only by
\* deleting from it the nodes that were B's and that it takes over (their
\* distributed-parent pointer moves from B to A), leaving the set undefined
\* when it empties.
C21_TakesOverOnly ==
    [][\A B \in TreeNodes : (dc'[B] # dc[B] /\ last'.this # B) =>
        LET taken == {c \in TreeNodes : dp[c] = B /\ dp'[c] = last'.this /\ Has(dc'[last'.this].items, c)}
            rest == SelectSeq(dc[B].items, LAMBDA c : c \notin taken)
        IN /\ taken # {}
           /\ dc'[B] = IF rest = <<>> THEN Undefined ELSE Some(rest)]_vars

\* n has just handled its slot s2 and taken x over from h: x left h's
\* distributed-children set in a handler that ran on n.
C21_Witness ==
    /\ last.this = "n" /\ last.child = "s2"
    /\ last.op \in {"slotchange", "deferred"}
    /\ dp["x"] = "n" /\ InSet("n", "x")
    /\ tag["h"]["x"] = "slot"
    /\ ~InSet("h", "x")

\* A child-added notification about a TreeNode is still to be processed:
\* later in the running batch, or in the records of an observer.
PendingChildAdded ==
    \/ \E i \in 2..Len(inbox) : inbox[i].h = "childConnected" /\ IsTreeNode(inbox[i].child)
    \/ \E p \in TreeNodes : \E i \in 1..Len(lrec[p]) : lrec[p][i].w > 0 /\ IsTreeNode(lrec[p][i].n)

\* C22 (as the spec states it): slot-distribution handling of a slot runs
\* only when no child-added notification about a TreeNode is left to be
\* processed, for a slot added as a light child and for a slot added as a
\* shadow-root child alike.
C22_AfterAllChildAdded ==
    [][\A P \in TreeNodes : \A S \in Slots : Handles(P, S) => ~PendingChildAdded]_vars

\* C22 (amended): for a slot added as a light child, the child-added
\* notification only registers the listener and defers the handling, and the
\* deferred handling runs when no notification and no slot-change event of
\* the batch is left; for a slot added as a shadow-root child, the handling
\* runs inside the shadow root's child-added notification itself.
C22_DeferredForLightSlot ==
    [][\A P \in TreeNodes : \A S \in Slots :
        /\ last' = Step("childConnected", P, S) =>
            /\ emitted' = <<>> /\ prev' = prev /\ dc' = dc /\ dp' = dp
            /\ micro' = Append(Due, Deferred(P, S))
            /\ Has(lis'[S], Listener(P, FALSE))
        /\ last' = Step("deferred", P, S) =>
            /\ ~PendingChildAdded /\ inbox = <<>> /\ signaled = <<>>
            /\ prev'[P][S] = Some(ResolveNewNodes(P, S))
        /\ last' = Step("shadowRootChildAdded", P, S) =>
            prev'[P][S] = Some(ResolveNewNodes(P, S))]_vars

\* n has run the deferred handling of its light-child slot s2, added in the
\* same batch as y, which is assigned to s2 and distributed to n.
C22_Witness ==
    /\ last = Step("deferred", "n", "s2")
    /\ prev["n"]["s2"] = Some(<<"y">>)
    /\ dp["y"] = "n"
    /\ ipd["y"]

\* N's parent element is neither a TreeNode nor a slot, and owns no shadow
\* root: a plain element of the page, or the body for a connected top-level
\* node.
UnderOther(N) ==
    /\ parentElement(Tree, N) \in Others \cup {Body}
    /\ ~hasShadowOf(Tree, parentElement(Tree, N))

\* C23 (as the spec states it): a node whose structural parent is neither a
\* TreeNode nor a composition boundary has a null composed parent, and no
\* error is raised.
C23_NullUnderOther ==
    /\ [](\A N \in Instances : UnderOther(N) => composedParent(N) = NONE)
    /\ [][\A N \in TreeNodes :
            /\ (last'.op = "appendChild" /\ last'.child = N /\ last'.this \in Others) =>
                threw' = threw
            /\ (answer'.q = "parent" /\ answer'.of = N /\ UnderOther(N)) =>
                (answer'.val = <<>> /\ threw' = threw)]_vars

\* C23 (amended): a node with no pointer set whose structural parent is an
\* element that is neither a TreeNode nor a slot and owns no shadow root has
\* that element as composed parent; and neither the step that attaches a node
\* under such an element nor a read of the node's composed parent there,
\* which returns that element, raises an error.
C23_ParentUnderOther ==
    /\ [](\A N \in Instances :
            (UnderOther(N) /\ dp[N] = NONE /\ srp[N] = NONE) =>
                composedParent(N) = parentElement(Tree, N))
    /\ [][\A N \in TreeNodes :
            /\ (last'.op = "appendChild" /\ last'.child = N /\ last'.this \in Others) =>
                (ParentOf(Tree, N)' = last'.this /\ threw' = threw)
            /\ (answer'.q = "parent" /\ answer'.of = N /\ UnderOther(N)
                    /\ dp[N] = NONE /\ srp[N] = NONE) =>
                (answer'.val = <<parentElement(Tree, N)>> /\ threw' = threw)]_vars

\* x was attached under the plain element d, a child of the node h, and a
\* read of the composed parent of x returned d.
C23_Witness ==
    /\ UnderOther("x")
    /\ ParentOf(Tree, "d") = "h"
    /\ answer = Answer("parent", "x", <<"d">>, 1)

\* C24: once every mutation notification, slot-change event and continuation
\* has been delivered, so that nothing is left for fair delivery to run, a
\* defined TreeNode X that is assigned to a slot S whose tracker resolves X
\* for it (S is not itself re-slotted away from its tracker) is in the
\* tracker's distributed-children set, with the 'slot' composed callback as
\* the last callback the tracker received about it, however many elements the
\* slot already had.
C24_EventuallyDistributed ==
    Quiescent =>
        \A X \in TreeNodes : \A S \in Slots :
            (X \in defined /\ ResolvedTo(TrackerOf(S), S, X)) =>
                InSet(TrackerOf(S), X) /\ tag[TrackerOf(S)][X] = "slot"

\* The step delivered or queued childComposedCallback(c, 'actual') of P, and
\* nothing else.
ActualComposed(P, c) ==
    IF c \in defined
    THEN emitted' = <<Cb("composed", P, c, "actual")>> /\ waiting' = waiting /\ micro' = Due
    ELSE /\ emitted' = <<>>
         /\ IF c \in registered
            THEN waiting' = waiting /\ micro' = Append(Due, Reaction(Cb("composed", P, c, "actual")))
            ELSE waiting' = Append(waiting, Cb("composed", P, c, "actual")) /\ micro' = Due

\* C25 (as the spec states it): the child-added notification of a TreeNode
\* child c on parent P delivers no callback and sets c's pending-distribution
\* flag when P is a non-scene with a tracked shadow root, and otherwise
\* delivers childComposedCallback(c, 'actual').
C25_AttachTreeNode ==
    [][\A P \in TreeNodes : \A c \in TreeNodes :
        last' = Step("childConnected", P, c) =>
            IF P \notin Scenes /\ P \in shadowRoot
            THEN emitted' = <<>> /\ waiting' = waiting /\ ipd'[c]
            ELSE ActualComposed(P, c)]_vars

\* C25 (amended): the same for a child that is a Node (isNode); for a
\* TreeNode child that is not a Node (a scene) the notification delivers no
\* callback and leaves every pending-distribution flag as it was.
C25_AttachNode ==
    [][\A P \in TreeNodes : \A c \in TreeNodes :
        last' = Step("childConnected", P, c) =>
            IF ~isNode(c)
            THEN emitted' = <<>> /\ waiting' = waiting /\ ipd' = ipd
            ELSE IF P \notin Scenes /\ P \in shadowRoot
            THEN emitted' = <<>> /\ waiting' = waiting /\ ipd' = [ipd EXCEPT ![c] = TRUE]
            ELSE ActualComposed(P, c) /\ ipd' = ipd]_vars

\* The child-added notification of the Node y on host h, which has a tracked
\* shadow root, has run: y is pending distribution and no callback was
\* delivered.
C25_Witness ==
    /\ last = Step("childConnected", "h", "y")
    /\ "h" \in shadowRoot
    /\ ipd["y"]
    /\ emitted = <<>>

\* C26: attachShadow on a non-scene node P puts every TreeNode child of P in
\* the pending-distribution state; a child that had received
\* childComposedCallback(child, 'actual') from P receives exactly one
\* childUncomposedCallback(child, 'actual'), and a child that had not (its
\* composed callback still waits for the definition, or its child-added
\* notification is not delivered yet) receives none.
C26_AttachShadow ==
    [][\A P \in TreeNodes \ Scenes :
        last' = Step("attachShadow", P, NONE) =>
            \A c \in TreeNodes : (IsTreeNode(c) /\ Has(lightKids[P], c)) =>
                /\ ipd'[c]
                /\ Len(SelectSeq(emitted', LAMBDA cb : cb = Cb("uncomposed", P, c, "actual")))
                       = IF tag[P][c] = "actual" THEN 1 ELSE 0]_vars

\* C27: a scene never has a tracked shadow root and never holds shadow-root
\* records (it observes no shadow root), and the composedParent of a node
\* whose structural parent is a scene is that scene; attachShadow on a scene
\* delivers nothing and changes no flag, the child-added and child-removed
\* notifications of a Node child of a scene deliver the 'actual' composed and
\* uncomposed callback, and no handler of a scene changes a
\* pending-distribution flag.
C27_SceneChildren ==
    /\ [](\A S \in Scenes :
            /\ S \notin shadowRoot
            /\ srec[S] = <<>>
            /\ \A N \in Instances : ParentOf(Tree, N) = S => composedParent(N) = S)
    /\ [][\A S \in Scenes :
            /\ (last'.this = S /\ last'.op \in {"attachShadow", "childConnected", "childDisconnected",
                                                 "deferred", "slotchange"}) =>
                   ipd' = ipd /\ shadowRoot' = shadowRoot
            /\ last' = Step("attachShadow", S, NONE) => emitted' = <<>> /\ waiting' = waiting
            /\ \A c \in Nodes :
                /\ last' = Step("childConnected", S, c) => ActualComposed(S, c)
                /\ last' = Step("childDisconnected", S, c) =>
                       emitted' = <<Cb("uncomposed", S, c, "actual")>>]_vars

\* The scene sc, which owns a shadow root it does not track, has run the
\* child-removed notification of its child x and delivered the 'actual'
\* uncomposed callback; x is not pending distribution.
C27_Witness ==
    /\ last = Step("childDisconnected", "sc", "x")
    /\ "sc" \in hasShadow
    /\ "sc" \notin shadowRoot
    /\ emitted = <<Cb("uncomposed", "sc", "x", "actual")>>
    /\ ~ipd["x"]

\* C28: when tracker P processes the removal of slot S (a light child or a
\* child of its shadow root), every TreeNode in P's snapshot for S receives
\* childUncomposedCallback(node, 'slot') from P, has its distributed-parent
\* pointer cleared and is no longer in P's distributed-children set, and P's
\* snapshot entry for S is deleted.
C28_SlotRemoved ==
    [][\A P \in TreeNodes : \A S \in Slots :
        (last'.op \in {"childDisconnected", "shadowRootChildRemoved"} /\ last'.this = P /\ last'.child = S) =>
            LET snapshot == IF prev[P][S].def THEN prev[P][S].items ELSE <<>> IN
            /\ emitted' = UncomposedFor(P, snapshot)
            /\ \A i \in 1..Len(snapshot) : IsTreeNode(snapshot[i]) =>
                   dp'[snapshot[i]] = NONE /\ ~Has(dc'[P].items, snapshot[i])
            /\ ~prev'[P][S].def]_vars

\* C29: a slotchange event on slot S makes a tracker T that no longer owns S
\* (S was removed from T and the removal processed) deliver no callback and
\* leaves the distributed-children sets, the snapshots and the
\* distributed-parent pointers as they were; only the tracker that owns S
\* reacts.
C29_OwnerOnly ==
    [][\A T \in TreeNodes : \A S \in Slots :
        (last' = Step("slotchange", T, S) /\ TrackerOf(S) # T) =>
            emitted' = <<>> /\ dc' = dc /\ prev' = prev /\ dp' = dp]_vars

\* C30: in every quiescent state, a node's pending-distribution flag is true
\* exactly when its structural parent is a non-scene TreeNode with a tracked
\* shadow root.
C30_FlagIffHostChild ==
    Quiescent =>
        \A N \in Nodes \cap Instances :
            ipd[N] <=> (ParentOf(Tree, N) \in TreeNodes \ Scenes /\ ParentOf(Tree, N) \in shadowRoot)

\* C31: in every quiescent state, a TreeNode X has shadow-root-parent pointer
\* H exactly when X is a top-level child of the tracked shadow root of host H.
C31_RootPointer ==
    Quiescent =>
        \A X \in TreeNodes : \A H \in TreeNodes :
            srp[X] = H <=> (H \in shadowRoot /\ Has(shadowKids[H], X))

\* C32: after tracker P has run the slot-distribution handling of slot S, its
\* snapshot for S is the complete list it resolved for S, in assignment
\* order, not the list the in-place diff leaves; after the handling that a
\* removal of S runs, the snapshot is that list or has been deleted.
C32_SnapshotIsResolved ==
    [][\A P \in TreeNodes : \A S \in Slots :
        /\ Handles(P, S) => prev'[P][S] = Some(ResolveNewNodes(P, S))
        /\ (last'.op \in {"childDisconnected", "shadowRootChildRemoved"} /\ last'.this = P /\ last'.child = S) =>
               prev'[P][S] \in {Undefined, Some(ResolveNewNodes(P, S))}]_vars

\* On page ThreeSlotted, host h has handled the slotchange of s1 after y was
\* appended: the diff left only part of the resolved list (one callback was
\* delivered), and the snapshot is the whole list of three.
C32_Witness ==
    /\ script = ThreeSlotted
    /\ last = Step("slotchange", "h", "s1")
    /\ Len(emitted) = 1
    /\ prev["h"]["s1"] = Some(<<"n", "x", "y">>)

\* C33: after tracker P has completed the slot-distribution handling of slot
\* S (no error was raised), every TreeNode in P's snapshot for S that no other
\* tracker has claimed is in P's distributed-children set with
\* distributed-parent P.
C33_SnapshotInSet ==
    [][\A P \in TreeNodes : \A S \in Slots :
        (Handles(P, S) /\ ~threw') =>
            \A c \in Range(prev'[P][S].items) \cap TreeNodes :
                dp'[c] \in {NONE, P} => (dp'[c] = P /\ Has(dc'[P].items, c))]_vars

\* C34: in every quiescent state the two queries agree: a TreeNode X appears
\* in composedChildren(P) exactly when composedParent(X) = P, and
\* composedChildren(P) holds no element twice.
C34_QueriesAgree ==
    Quiescent =>
        \A P \in Instances :
            /\ NoDup(composedChildren(P))
            /\ \A X \in Instances : Has(composedChildren(P), X) <=> composedParent(X) = P

\* C35: cleanup leaves the target carrying none of the Surface's classes
\* (those of classList and those removed since the last commit), none of its
\* style properties and none of its attributes.
C35_CleanTarget ==
    [][surface'.call.op = "cleanup" =>
        /\ surface'.target.classList \cap (Range(surface.classList) \cup Range(surface.dirtyClasses)) = {}
        /\ surface'.target.style \cap surface.properties = {}
        /\ surface'.target.attrs \cap surface.attributes = {}]_vars

\* C36: classList never holds a name twice; after setClasses(L), called
\* directly or through setOptions, it holds exactly the names of L, and every
\* name it dropped is in _dirtyClasses (and the classes are dirty, so the
\* next commit removes it from the target).
C36_ClassList ==
    /\ [](NoDup(surface.classList))
    /\ [][\A L \in ClassLists :
            (\/ surface'.call.op = "setClasses" /\ surface'.call.arg = L
             \/ surface'.call.op = "setOptions" /\ surface'.call.arg.classes = <<L>>) =>
                /\ Range(surface'.classList) = Range(L)
                /\ \A c \in Range(surface.classList) \ Range(L) :
                       Has(surface'.dirtyClasses, c) /\ surface'.classesDirty]_vars

\* setClasses(<<a, a>>) was called on a Surface that had famous-surface: the
\* list holds a once, and famous-surface waits in _dirtyClasses.
C36_Witness ==
    /\ surface.call = [op |-> "setClasses", arg |-> <<"a", "a">>]
    /\ surface.classList = <<"a">>
    /\ Has(surface.dirtyClasses, "famous-surface")

\* C37: 'update' is emitted only between a 'start' and its 'end', and every
\* mouseup that follows a mousedown on the target, whether it is received on
\* the target or on the document, results in exactly one 'end'.
C37_WellFormedStream ==
    [][/\ Has(mouse'.em, "update") => mouse.open
       /\ (mouse'.event = "mouseup" /\ mouse.started) => mouse'.em = <<"end">>]_vars

\* The queue without position i (one-based).
WithoutAt(queue, i) ==
    [k \in 1..(Len(queue) - 1) |-> IF k < i THEN queue[k] ELSE queue[k + 1]]

\* C38: removeFromQueue(fn) removes exactly the entry fn from the update
\* queue and leaves every other entry and their order unchanged; when fn is
\* not in the queue, the queue is unchanged.
C38_RemoveExactly ==
    [][motor'.call.op = "removeFromQueue" =>
          LET fn == motor'.call.fn
              q == motor.updateQueue
          IN IF Has(q, fn)
             THEN \E i \in 1..Len(q) : q[i] = fn /\ motor'.updateQueue = WithoutAt(q, i)
             ELSE motor'.updateQueue = q]_vars

\* C39: in every reachable state, each tracker's distributed-children set is
\* either undefined or non-empty: a handler that deletes the last member of a
\* set, its own or another tracker's, resets the set to undefined.
C39_UndefinedOrNonEmpty ==
    \A B \in TreeNodes : dc[B].def => dc[B].items # <<>>

\* A handler on h has just uncomposed x, the last node distributed to h, in
\* its removal loop, and h's set is undefined again.
C39_Witness ==
    /\ last.this = "h"
    /\ Has(emitted, Cb("uncomposed", "h", "x", "slot"))
    /\ dp["x"] = NONE
    /\ ~dc["h"].def

====
